---- MODULE Spec2Model ----
(***************************************************************************)
(* A model of logwrap's template engine (template.go): the template        *)
(* parser, the render engine with its three placeholder kinds and its      *)
(* per-render cycle cache, the quote escaper used for nested placeholders, *)
(* and the usage-spec validator.                                           *)
(*                                                                         *)
(* Text is modelled as Go models it: a string is a sequence of bytes, each *)
(* byte a one-character TLA+ string.  The two bytes "C3" "A9" are the      *)
(* UTF-8 encoding of one two-byte code point; every other byte used here   *)
(* is ASCII.  "ESC" is the byte 0x1b.                                      *)
(***************************************************************************)
EXTENDS Integers, Sequences, FiniteSets, TLC

VARIABLES
    text,          \* template.text: the source handed to newTemplate
    tres,          \* what newTemplate returned: a template or a templateError
    placeholders,  \* template.placeholders: the registry, name -> placeholder
    cache,         \* template.cache: memo id -> cachedPlaceholder
    pc,            \* "new" | "idle" | "rendering" | "failed" | "panicked"
    line,          \* the text argument of the render call in progress
    idx,           \* render's position in t.elems (the range loop)
    out,           \* the bytes render has written to w so far
    renders,       \* number of render calls that have returned
    calls,         \* functions run during this render call, in order
    applied,       \* apply's calls during this render call: name, args, result
    makerRuns,     \* placeholderMaker invocations since construction, by name
    elemOut,       \* what each top-level element wrote in this render call
    uspecs,        \* usageSpecs.check: the receiver
    uargs,         \* usageSpecs.check: the argument list
    ures,          \* usageSpecs.check: what it returned
    upc,           \* "args" | "checked"
    sstr,          \* template.String() of the template newTemplate returned
    tres2,         \* what newTemplate returned for sstr
    sstr2,         \* template.String() of that second template
    spc,           \* "built" | "printed" | "reparsed"
    ptext,         \* usageParser: the spec text
    pres,          \* usageParser.parse: what it returned
    ppc,           \* "text" | "parsed"
    invPlaceholders, \* inv.placeholders, the registry of the invocation
    outputs,       \* stdout and stderr: template text, template, lines, output
    opc,           \* "new" | "set" | "failed" | "panicked"
    rerr,          \* the error and byte count of the last render call that failed
    lbuf,          \* linewiseWriter: w.buf
    ldown,         \* the Writes the downstream writer has received, in order
    lin,           \* the input of the Write calls so far, a Close that flushes
                   \* counted as the newline it appends
    lret,          \* what the last Write or Close was given and returned
    lerr,          \* whether a downstream Write has failed
    inv,           \* the invocation: its cleanup chain and what running it did
    rotator,       \* the fileRotator and the files of its directory
    cmd,           \* doRun: the command, its two output writers, the registry
    sig            \* doRun's signal handler: its locals, the child, the clock

vars == <<text, tres, placeholders, cache, pc, line, idx, out, renders, calls,
          applied, makerRuns, elemOut, uspecs, uargs, ures, upc,
          sstr, tres2, sstr2, spc, ptext, pres, ppc,
          invPlaceholders, outputs, opc, rerr, lbuf, ldown, lin, lret, lerr,
          inv, rotator, cmd, sig>>

tvars == <<text, tres, placeholders, cache, pc, line, idx, out, renders, calls,
           applied, makerRuns, elemOut>>

uvars == <<uspecs, uargs, ures, upc>>

svars == <<sstr, tres2, sstr2, spc>>

pvars == <<ptext, pres, ppc>>

ovars == <<invPlaceholders, outputs, opc>>

wvars == <<rerr>>

lvars == <<lbuf, ldown, lin, lret, lerr>>

\* The variables of neither a template's construction and rendering nor
\* usageSpecs.check.
xvars == <<svars, pvars, ovars, wvars, lvars, inv, rotator, cmd, sig>>

(***************************************************************************)
(* Bounds of the model.                                                    *)
(***************************************************************************)
MaxRenders == 2    \* render calls per behaviour
MaxLineLen == 3    \* bytes of an input line
MaxSrcLen == 5     \* pieces of an enumerated template source
MaxSpecs == 3      \* specs of an enumerated usage spec list
MaxArgs == 3       \* tokens of an enumerated argument list

(***************************************************************************)
(* Strings.                                                                *)
(***************************************************************************)
RECURSIVE Concat(_)
Concat(ss) == IF ss = <<>> THEN <<>> ELSE Head(ss) \o Concat(Tail(ss))

\* strings.Join(a, sep)
RECURSIVE Join(_, _)
Join(a, sep) ==
    IF a = <<>> THEN <<>>
    ELSE IF Len(a) = 1 THEN a[1]
    ELSE a[1] \o sep \o Join(Tail(a), sep)

\* All sequences over S of length at most n.
RECURSIVE SeqsUpTo(_, _)
SeqsUpTo(S, n) ==
    IF n = 0 THEN {<<>>}
    ELSE LET shorter == SeqsUpTo(S, n - 1)
         IN  shorter \cup {Append(s, x) : s \in shorter, x \in S}

IsPrefix(p, s) == Len(p) <= Len(s) /\ SubSeq(s, 1, Len(p)) = p

\* The decimal digits, for strconv.Itoa and strconv.Atoi.
Digits == <<"0", "1", "2", "3", "4", "5", "6", "7", "8", "9">>

DigitVal(c) == (CHOOSE d \in 1..10 : Digits[d] = c) - 1

IsDigit(c) == \E d \in 1..10 : Digits[d] = c

RECURSIVE Itoa(_)
Itoa(n) == IF n < 10 THEN <<Digits[n + 1]>> ELSE Itoa(n \div 10) \o <<Digits[(n % 10) + 1]>>

RECURSIVE AtoiAcc(_, _)
AtoiAcc(s, acc) == IF s = <<>> THEN acc ELSE AtoiAcc(Tail(s), acc * 10 + DigitVal(Head(s)))

\* strconv.Atoi on an unsigned decimal: [ok, n]; any other text is an error.
Atoi(s) ==
    IF s # <<>> /\ \A k \in 1..Len(s) : IsDigit(s[k])
    THEN [ok |-> TRUE, n |-> AtoiAcc(s, 0)]
    ELSE [ok |-> FALSE, n |-> 0]

(***************************************************************************)
(* String literals of the source, as byte sequences.                       *)
(***************************************************************************)
S_not_specified == <<"n", "o", "t", " ", "s", "p", "e", "c", "i", "f", "i", "e", "d">>

S_not_in == <<" ", "n", "o", "t", " ", "i", "n", " ">>

S_and_1_more_error == <<",", " ", "a", "n", "d", " ", "1", " ", "m", "o", "r", "e", " ", "e", "r", "r", "o", "r">>

S_and == <<",", " ", "a", "n", "d", " ">>

S_more_errors == <<" ", "m", "o", "r", "e", " ", "e", "r", "r", "o", "r", "s">>

(***************************************************************************)
(* shellwords.SplitPosix, the tokenizer newTemplate and renderElem call.   *)
(* Unquoted separators split words; a quote groups up to the same quote    *)
(* and is stripped; a backslash takes the next byte literally, inside      *)
(* quotes too when that byte is a quote or a backslash (template_test.go   *)
(* relies on \' and \" inside '...'); a quoted empty string is a word; end *)
(* of input inside a quote is the error.                                   *)
(***************************************************************************)
Quotes == {"'", "\""}

FieldSeparators == {" ", "\t", "\n"}

RECURSIVE SplitScan(_, _, _, _, _, _)
SplitScan(s, i, word, has, words, q) ==
    IF i > Len(s)
    THEN IF q # "" THEN [err |-> TRUE, words |-> <<>>]
         ELSE [err |-> FALSE, words |-> IF has THEN Append(words, word) ELSE words]
    ELSE LET c == s[i] IN
         IF q = ""
         THEN CASE c = "\\" ->
                     IF i + 1 <= Len(s)
                     THEN SplitScan(s, i + 2, Append(word, s[i + 1]), TRUE, words, q)
                     ELSE SplitScan(s, i + 1, word, has, words, q)
                [] c \in Quotes -> SplitScan(s, i + 1, word, TRUE, words, c)
                [] c \in FieldSeparators ->
                     SplitScan(s, i + 1, <<>>, FALSE,
                               IF has THEN Append(words, word) ELSE words, q)
                [] OTHER -> SplitScan(s, i + 1, Append(word, c), TRUE, words, q)
         ELSE CASE c = q -> SplitScan(s, i + 1, word, has, words, "")
                [] c = "\\" /\ i + 1 <= Len(s) /\ s[i + 1] \in Quotes \cup {"\\"} ->
                     SplitScan(s, i + 2, Append(word, s[i + 1]), has, words, q)
                [] OTHER -> SplitScan(s, i + 1, Append(word, c), has, words, q)

SplitPosix(s) == SplitScan(s, 1, <<>>, FALSE, <<>>, "")

(***************************************************************************)
(* quoteEscaper.Write: a backslash goes before every quote byte that does  *)
(* not follow a backslash.  renderElem makes a fresh quoteEscaper (prev =  *)
(* 0) for every child and the child writes to it at most once.             *)
(***************************************************************************)
RECURSIVE EscapeFrom(_, _)
EscapeFrom(p, prev) ==
    IF p = <<>> THEN <<>>
    ELSE LET r == Head(p) IN
         (IF r \in Quotes /\ prev # "\\" THEN <<"\\", r>> ELSE <<r>>)
             \o EscapeFrom(Tail(p), r)

quoteEscaperWrite_passes(p) == p

quoteEscaperWrite(p) == EscapeFrom(p, "")

(***************************************************************************)
(* strconv.Quote / the %q verb, on the bytes the model uses.               *)
(***************************************************************************)
RECURSIVE QuoteBody(_)
QuoteBody(s) ==
    IF s = <<>> THEN <<>>
    ELSE LET c == Head(s) IN
         (CASE c = "\"" -> <<"\\", "\"">>
            [] c = "\\" -> <<"\\", "\\">>
            [] c = "\t" -> <<"\\", "t">>
            [] c = "\n" -> <<"\\", "n">>
            [] c = "ESC" -> <<"\\", "x", "1", "b">>
            [] OTHER -> <<c>>) \o QuoteBody(Tail(s))

strconvQuote(s) == <<"\"">> \o QuoteBody(s) \o <<"\"">>

(***************************************************************************)
(* Usage specs: usageWord, usageOpt, usageReq, usageAlt, usageEnum.        *)
(***************************************************************************)
plainWord(word) == [k |-> "word", typ |-> "plain", val |-> word, sub |-> <<>>]

argWord(word) == [k |-> "word", typ |-> "arg", val |-> word, sub |-> <<>>]

usageOpt(u) == [k |-> "opt", typ |-> "", val |-> <<>>, sub |-> <<u>>]

usageReq(u) == [k |-> "req", typ |-> "", val |-> <<>>, sub |-> <<u>>]

usageEnum(u) == [k |-> "enum", typ |-> "", val |-> <<>>, sub |-> <<u>>]

usageAlt(us) == [k |-> "alt", typ |-> "", val |-> <<>>, sub |-> us]

errNotSpecified == "not specified"

errNotMatched == "not matched"

\* The String methods of the five spec kinds.
RECURSIVE specString(_)
RECURSIVE altString(_)
specString(u) ==
    CASE u.k = "word" -> u.val
      [] u.k = "opt" -> <<"[">> \o specString(u.sub[1]) \o <<"]">>
      [] u.k = "req" -> <<"<">> \o specString(u.sub[1]) \o <<">">>
      [] u.k = "enum" -> specString(u.sub[1]) \o <<".", ".", ".">>
      [] u.k = "alt" -> altString(u.sub)

altString(us) ==
    IF us = <<>> THEN <<>>
    ELSE IF Len(us) = 1 THEN specString(us[1])
    ELSE specString(us[1]) \o <<"|">> \o altString(Tail(us))

\* plainWord's and argWord's fn.
wordCheck(u, args) ==
    IF args = <<>> THEN [args |-> args, err |-> errNotSpecified]
    ELSE IF u.typ = "arg" THEN [args |-> Tail(args), err |-> "nil"]
    ELSE IF u.val # args[1]
         THEN IF args[1] = <<>> THEN [args |-> args, err |-> errNotSpecified]
              ELSE [args |-> args, err |-> errNotMatched]
         ELSE [args |-> Tail(args), err |-> "nil"]

\* The check methods of usageWord, usageOpt, usageReq, usageAlt, usageEnum.
RECURSIVE specCheck(_, _)
RECURSIVE altCheck(_, _, _)
RECURSIVE enumCheck(_, _)
specCheck(u, args) ==
    CASE u.k = "word" -> wordCheck(u, args)
      [] u.k = "opt" ->
           LET r == specCheck(u.sub[1], args)
           IN  IF r.err # "nil" THEN [args |-> args, err |-> r.err] ELSE r
      [] u.k = "req" ->
           IF args = <<>> THEN [args |-> args, err |-> errNotSpecified]
           ELSE LET r == specCheck(u.sub[1], args)
                IN  IF r.err # "nil" THEN [args |-> args, err |-> r.err] ELSE r
      [] u.k = "alt" ->
           IF args = <<>> THEN [args |-> args, err |-> errNotSpecified]
           ELSE altCheck(u.sub, args, "nil")
      [] u.k = "enum" ->
           IF args = <<>> THEN [args |-> args, err |-> errNotSpecified]
           ELSE enumCheck(u.sub[1], args)

altCheck(us, args, err) ==
    IF us = <<>> THEN [args |-> args, err |-> err]
    ELSE LET r == specCheck(us[1], args)
         IN  IF r.err = "nil" THEN r ELSE altCheck(Tail(us), args, r.err)

enumCheck_once(u, args) == specCheck(u, args)

enumCheck(u, args) ==
    IF args = <<>> THEN [args |-> args, err |-> "nil"]
    ELSE LET r == specCheck(u, args)
         IN  IF r.err # "nil" THEN r ELSE enumCheck(u, r.args)

\* usageSpecs.check, the switch after spec.check(args): what an Optional's
\* position does to the outcome.  r is spec.check's result, prev the
\* arguments before it.
optOutcome_dropsRewind(opt, last, prev, r) ==
    CASE last /\ opt /\ r.args = <<>> -> [args |-> r.args, err |-> "nil"]
      [] last /\ opt -> r
      [] opt -> [args |-> r.args, err |-> "nil"]
      [] OTHER -> r

optOutcome_lastIsQuiet(opt, last, prev, r) ==
    CASE last /\ opt -> [args |-> r.args, err |-> "nil"]
      [] opt -> [args |-> prev, err |-> "nil"]
      [] OTHER -> r

optOutcome(opt, last, prev, r) ==
    CASE last /\ opt /\ r.args = <<>> -> [args |-> r.args, err |-> "nil"]
      [] last /\ opt -> r
      [] opt -> [args |-> prev, err |-> "nil"]
      [] OTHER -> r

usageError(spec, args, cause) ==
    [spec |-> specString(spec), arg |-> IF args # <<>> THEN args[1] ELSE <<>>,
     cause |-> cause]

RECURSIVE specsCheckFrom_stopsAtFirst(_, _, _, _)
specsCheckFrom_stopsAtFirst(specs, i, args, errs) ==
    IF i > Len(specs) \/ errs # <<>> THEN [args |-> args, errs |-> errs]
    ELSE LET spec == specs[i]
             r == optOutcome(spec.k = "opt", i = Len(specs), args,
                             specCheck(spec, args))
         IN  specsCheckFrom_stopsAtFirst(specs, i + 1, r.args,
                            IF r.err # "nil"
                            THEN Append(errs, usageError(spec, r.args, r.err))
                            ELSE errs)

specsCheckFrom_rejectsRest(specs, i, args, errs) ==
    LET r == specsCheckFrom_stopsAtFirst(specs, i, args, errs)
    IN  IF r.args # <<>> /\ r.errs = <<>>
        THEN [args |-> r.args,
              errs |-> <<[spec |-> <<>>, arg |-> r.args[1], cause |-> errNotMatched]>>]
        ELSE r

\* usageSpecs.check: the remaining arguments and the usageErrors collected.
RECURSIVE specsCheckFrom(_, _, _, _)
specsCheckFrom(specs, i, args, errs) ==
    IF i > Len(specs) THEN [args |-> args, errs |-> errs]
    ELSE LET spec == specs[i]
             r == optOutcome(spec.k = "opt", i = Len(specs), args,
                             specCheck(spec, args))
         IN  specsCheckFrom(specs, i + 1, r.args,
                            IF r.err # "nil"
                            THEN Append(errs, usageError(spec, r.args, r.err))
                            ELSE errs)

usageSpecsCheck(specs, args) == specsCheckFrom(specs, 1, args, <<>>)

\* usageError.Error
usageErrorString(e) ==
    IF e.cause = errNotSpecified
    THEN e.spec \o <<" ">> \o S_not_specified
    ELSE strconvQuote(e.arg) \o S_not_in \o e.spec

\* usageErrors.Error
usageErrorsString(es) ==
    CASE Len(es) = 0 -> <<>>
      [] Len(es) = 1 -> usageErrorString(es[1])
      [] Len(es) = 2 -> usageErrorString(es[1]) \o S_and_1_more_error
      [] OTHER -> usageErrorString(es[1]) \o S_and \o Itoa(Len(es) - 1) \o S_more_errors

(***************************************************************************)
(* The template parser.  p.pos is a byte offset into the source; next and  *)
(* prev move by one code point.                                            *)
(***************************************************************************)
eof == "eof"

errEmptyPlaceholder == "empty placeholder"

errMissingPlaceholderName == "missing placeholder name"

errNoSuchPlaceholder == "no such placeholder"

errUnexpectedClosingDelimiter == "unexpected closing delimiter"

errUnterminatedPlaceholder == "unterminated placeholder"

errExpectedSpace == "expected a space character"

errUnbalancedQuotes == "placeholder arguments contain unbalanced quotes"

\* utf8.DecodeRuneInString(t[pos:]): the code point and its size in bytes.
DecodeRune(t, pos) ==
    IF t[pos + 1] = "C3" /\ pos + 2 <= Len(t) /\ t[pos + 2] = "A9"
    THEN [r |-> "U+E9", size |-> 2]
    ELSE [r |-> t[pos + 1], size |-> 1]

\* utf8.DecodeLastRuneInString(t[:pos])
DecodeLastRune(t, pos) ==
    IF t[pos] = "A9" /\ pos >= 2 /\ t[pos - 1] = "C3"
    THEN [r |-> "U+E9", size |-> 2]
    ELSE [r |-> t[pos], size |-> 1]

\* strings.Builder.WriteRune: the UTF-8 bytes of a code point.
RuneBytes(r) == IF r = "U+E9" THEN <<"C3", "A9">> ELSE <<r>>

\* templateParser.next
next(t, pos) ==
    IF pos = Len(t) THEN [r |-> eof, pos |-> pos]
    ELSE LET d == DecodeRune(t, pos) IN [r |-> d.r, pos |-> pos + d.size]

\* templateParser.prev
prev(t, pos) ==
    IF pos = 0 THEN [r |-> eof, pos |-> pos]
    ELSE LET d == DecodeLastRune(t, pos) IN [r |-> d.r, pos |-> pos - d.size]

\* unicode.IsSpace, on the code points of the model.
IsSpace(r) == r \in {" ", "\t", "\n"}

\* templateParser.skipWhile(unicode.IsSpace): read while the code point is a
\* space, then step back once, also when the read that stopped it was eof.
RECURSIVE skipForward(_, _)
skipForward(t, pos) ==
    LET n == next(t, pos) IN IF IsSpace(n.r) THEN skipForward(t, n.pos) ELSE n.pos

skipWhitespace(t, pos) == prev(t, skipForward(t, pos)).pos

\* templateParser.errAt
errAt(pos, cause) == [kind |-> "error", pos |-> pos, cause |-> cause]

textElem_empty(s) == [type |-> "text", s |-> <<>>, name |-> <<>>, args |-> <<>>, elems |-> <<>>]

textElem(s) == [type |-> "text", s |-> s, name |-> <<>>, args |-> <<>>, elems |-> <<>>]

placeholderElem(name, args) ==
    [type |-> "placeholder", s |-> <<>>, name |-> name, args |-> args, elems |-> <<>>]

nestedPlaceholderElem(name, elems) ==
    [type |-> "nested", s |-> <<>>, name |-> name, args |-> <<>>, elems |-> elems]

\* parsePlaceholderName, the switch on the name read from byte offset pos0.
nameOutcome(ps, name, closed, pos0, pos) ==
    CASE name = <<>> /\ closed -> errAt(pos0 - 1, errEmptyPlaceholder)
      [] name = <<>> -> errAt(pos0, errMissingPlaceholderName)
      [] name \notin ps -> errAt(pos0, errNoSuchPlaceholder)
      [] OTHER -> [kind |-> "name", name |-> name, pos |-> pos]

\* templateParser.parsePlaceholderName: the loop from p.pos = pos, sb read so far.
RECURSIVE nameLoop(_, _, _, _, _)
nameLoop(t, ps, pos0, pos, sb) ==
    LET n == next(t, pos) IN
    CASE n.r = "{" ->
           IF sb # <<>> THEN errAt(n.pos - 1, errExpectedSpace)
           ELSE errAt(n.pos - pos0, errMissingPlaceholderName)
      [] n.r = "}" -> nameOutcome(ps, sb, TRUE, pos0, prev(t, n.pos).pos)
      [] n.r = " " -> nameOutcome(ps, sb, FALSE, pos0, prev(t, n.pos).pos)
      [] n.r = eof -> nameOutcome(ps, sb, FALSE, pos0, n.pos)
      [] OTHER -> nameLoop(t, ps, pos0, n.pos, sb \o RuneBytes(n.r))

parsePlaceholderName(t, ps, pos) == nameLoop(t, ps, pos, pos, <<>>)

\* parsePlaceholder, after the closing delimiter: a regular placeholder's
\* arguments are tokenized here and unbalanced quotes fail the parse.
regularPlaceholder_noQuoteCheck(name, sb, pos0, pos) ==
    [kind |-> "elem", pos |-> pos,
     elem |-> placeholderElem(name, IF sb # <<>> THEN SplitPosix(sb).words ELSE <<>>)]

regularPlaceholder(name, sb, pos0, pos) ==
    IF sb # <<>> /\ SplitPosix(sb).err
    THEN errAt(pos0 + 1, errUnbalancedQuotes)
    ELSE [kind |-> "elem", pos |-> pos,
          elem |-> placeholderElem(name, IF sb # <<>> THEN SplitPosix(sb).words ELSE <<>>)]

\* parsePlaceholder, end of input in the body: errAt(pos+1, ...), pos the
\* offset of the opening delimiter.
unterminated_atDelimiter(pos0) == errAt(pos0, errUnterminatedPlaceholder)

unterminated(pos0) == errAt(pos0 + 1, errUnterminatedPlaceholder)

\* templateParser.parsePlaceholder, entered with p.pos = pos0 at the opening
\* delimiter, and its loop over the placeholder's body.
RECURSIVE parsePlaceholder(_, _, _)
RECURSIVE bodyLoop(_, _, _, _, _, _, _)
parsePlaceholder(t, ps, pos0) ==
    LET p1 == skipWhitespace(t, next(t, pos0).pos)
        nm == parsePlaceholderName(t, ps, p1)
    IN  IF nm.kind = "error" THEN nm
        ELSE bodyLoop(t, ps, pos0, skipWhitespace(t, nm.pos), nm.name, <<>>, <<>>)

bodyLoop(t, ps, pos0, pos, name, sb, elems) ==
    LET n == next(t, pos) IN
    CASE n.r = eof -> unterminated(pos0)
      [] n.r = "{" ->
           LET flushed == IF sb # <<>> THEN Append(elems, textElem(sb)) ELSE elems
               sb1 == <<>>
               e == parsePlaceholder(t, ps, prev(t, n.pos).pos)
           IN  IF e.kind = "error" THEN e
               ELSE bodyLoop(t, ps, pos0, e.pos, name, sb1, Append(flushed, e.elem))
      [] n.r = "}" ->
           IF elems # <<>> /\ name # <<"t", "e", "x", "t">>
           THEN [kind |-> "elem", pos |-> n.pos,
                 elem |-> nestedPlaceholderElem(name,
                              IF sb # <<>> THEN Append(elems, textElem(sb)) ELSE elems)]
           ELSE regularPlaceholder(name, sb, pos0, n.pos)
      [] OTHER -> bodyLoop(t, ps, pos0, n.pos, name, sb \o RuneBytes(n.r), elems)

\* templateParser.parseElem: kind "elem" (err nil), "eof" (err io.EOF, with or
\* without a last text element) or "error".
RECURSIVE parseElemLoop(_, _, _, _)
parseElemLoop(t, ps, pos, sb) ==
    LET n == next(t, pos) IN
    CASE n.r = "{" ->
           IF sb # <<>>
           THEN [kind |-> "elem", pos |-> prev(t, n.pos).pos, elem |-> textElem(sb)]
           ELSE parsePlaceholder(t, ps, prev(t, n.pos).pos)
      [] n.r = "}" -> errAt(n.pos - 1, errUnexpectedClosingDelimiter)
      [] n.r = eof ->
           [kind |-> "eof", pos |-> n.pos,
            elems |-> IF sb # <<>> THEN <<textElem(sb)>> ELSE <<>>]
      [] OTHER -> parseElemLoop(t, ps, n.pos, sb \o RuneBytes(n.r))

parseElem(t, ps, pos) == parseElemLoop(t, ps, pos, <<>>)

\* newTemplate: parseElem until io.EOF; any other error and no template.
RECURSIVE parseLoop(_, _, _, _)
parseLoop(t, ps, pos, elems) ==
    LET e == parseElem(t, ps, pos) IN
    CASE e.kind = "error" -> e
      [] e.kind = "eof" -> [kind |-> "template", elems |-> elems \o e.elems]
      [] OTHER -> parseLoop(t, ps, e.pos, Append(elems, e.elem))

newTemplate(t, ps) == parseLoop(t, ps, 0, <<>>)

(***************************************************************************)
(* The placeholder registry.  A placeholder value is nil, a                *)
(* placeholderFunc, a cyclicPlaceholder or a placeholderMaker; fn names    *)
(* the Go closure and i is the counter the test's cyclic closure captures. *)
(* The registry is the one TestTemplateRender builds (echo, cyclic, sgl,   *)
(* dbl over defaultPlaceholders()), with text, name, pid, env and fg of    *)
(* the defaults.                                                           *)
(***************************************************************************)
N_text == <<"t", "e", "x", "t">>

N_name == <<"n", "a", "m", "e">>

N_pid == <<"p", "i", "d">>

N_env == <<"e", "n", "v">>

N_fg == <<"f", "g">>

N_echo == <<"e", "c", "h", "o">>

N_cyclic == <<"c", "y", "c", "l", "i", "c">>

N_cyclic2 == <<"c", "y", "c", "l", "i", "c", "2">>

N_sgl == <<"s", "g", "l">>

N_dbl == <<"d", "b", "l">>

nilPlaceholder == [kind |-> "nil", fn |-> "", i |-> 0]

placeholderFunc(fn) == [kind |-> "func", fn |-> fn, i |-> 0]

cyclicPlaceholder(fn, i) == [kind |-> "cyclic", fn |-> fn, i |-> i]

placeholderMaker(fn) == [kind |-> "maker", fn |-> fn, i |-> 0]

\* defaultPlaceholders() with newPs of TestTemplateRender over it.
defaultPlaceholders ==
    (N_text :> nilPlaceholder) @@ (N_name :> nilPlaceholder) @@
    (N_pid :> nilPlaceholder) @@ (N_env :> placeholderFunc("env")) @@
    (N_fg :> placeholderFunc("fg")) @@ (N_echo :> placeholderFunc("echo")) @@
    (N_cyclic :> placeholderMaker("cyclic")) @@
    (N_cyclic2 :> placeholderMaker("cyclic")) @@ (N_sgl :> placeholderFunc("sgl")) @@
    (N_dbl :> placeholderFunc("dbl"))

\* placeholders.has
has(ps, name) == name \in DOMAIN ps

\* placeholders.get that reads the registry as defaultPlaceholders made it.
get_asDeclared(ps, name) ==
    IF name \in DOMAIN defaultPlaceholders THEN defaultPlaceholders[name] ELSE nilPlaceholder

\* placeholders.get
get(ps, name) == IF name \in DOMAIN ps THEN ps[name] ELSE nilPlaceholder

\* placeholders.set
set(ps, name, p) == [n \in DOMAIN ps \cup {name} |-> IF n = name THEN p ELSE ps[n]]

\* placeholderDefs[name].usage, for the names init() defines: {{usage}} of
\* text, name and pid, "<variable>" of env, "<color> [<arguments...>]" of fg.
hasDef(name) == name \in {N_text, N_name, N_pid, N_env, N_fg}

defUsage(name) ==
    CASE name = N_env -> <<usageReq(argWord(<<"v", "a", "r", "i", "a", "b", "l", "e">>))>>
      [] name = N_fg ->
           <<usageReq(argWord(<<"c", "o", "l", "o", "r">>)),
             usageOpt(usageReq(usageEnum(argWord(<<"a", "r", "g", "u", "m", "e", "n", "t", "s">>))))>>
      [] OTHER -> <<>>

\* placeholders.check: nil, or the usageErrors of the name's usage spec.
check(ps, name, args) ==
    IF ~has(ps, name) \/ ~hasDef(name) THEN <<>>
    ELSE usageSpecsCheck(defUsage(name), args).errs

\* os.Getenv in the environment the model runs in: H is set, nothing else.
Getenv(v) == IF v = <<"H">> THEN <<"/", "r">> ELSE <<>>

\* codes["fg"]
fgCodes ==
    {<<<<"b", "l", "a", "c", "k">>, <<"3", "0">>>>,
     <<<<"r", "e", "d">>, <<"3", "1">>>>,
     <<<<"g", "r", "e", "e", "n">>, <<"3", "2">>>>,
     <<<<"y", "e", "l", "l", "o", "w">>, <<"3", "3">>>>,
     <<<<"b", "l", "u", "e">>, <<"3", "4">>>>,
     <<<<"m", "a", "g", "e", "n", "t", "a">>, <<"3", "5">>>>,
     <<<<"c", "y", "a", "n">>, <<"3", "6">>>>,
     <<<<"g", "r", "a", "y">>, <<"3", "7">>>>,
     <<<<"g", "r", "e", "y">>, <<"3", "7">>>>,
     <<<<"l", "i", "g", "h", "t", "-", "g", "r", "a", "y">>, <<"3", "7">>>>,
     <<<<"l", "i", "g", "h", "t", "-", "g", "r", "e", "y">>, <<"3", "7">>>>,
     <<<<"d", "e", "f", "a", "u", "l", "t">>, <<"3", "9">>>>,
     <<<<"d", "a", "r", "k", "-", "g", "r", "a", "y">>, <<"9", "0">>>>,
     <<<<"d", "a", "r", "k", "-", "g", "r", "e", "y">>, <<"9", "0">>>>,
     <<<<"l", "i", "g", "h", "t", "-", "r", "e", "d">>, <<"9", "1">>>>,
     <<<<"l", "i", "g", "h", "t", "-", "g", "r", "e", "e", "n">>, <<"9", "2">>>>,
     <<<<"l", "i", "g", "h", "t", "-", "y", "e", "l", "l", "o", "w">>, <<"9", "3">>>>,
     <<<<"l", "i", "g", "h", "t", "-", "b", "l", "u", "e">>, <<"9", "4">>>>,
     <<<<"l", "i", "g", "h", "t", "-", "m", "a", "g", "e", "n", "t", "a">>, <<"9", "5">>>>,
     <<<<"l", "i", "g", "h", "t", "-", "c", "y", "a", "n">>, <<"9", "6">>>>,
     <<<<"w", "h", "i", "t", "e">>, <<"9", "7">>>>}

Upper == <<"A", "B", "C", "D", "E", "F", "G", "H", "I", "J", "K", "L", "M",
           "N", "O", "P", "Q", "R", "S", "T", "U", "V", "W", "X", "Y", "Z">>

Lower == <<"a", "b", "c", "d", "e", "f", "g", "h", "i", "j", "k", "l", "m",
           "n", "o", "p", "q", "r", "s", "t", "u", "v", "w", "x", "y", "z">>

\* strings.ToLower
ToLower(s) ==
    [k \in 1..Len(s) |->
        IF \E u \in 1..26 : Upper[u] = s[k]
        THEN Lower[CHOOSE u \in 1..26 : Upper[u] = s[k]]
        ELSE s[k]]

\* strings.TrimSpace
RECURSIVE TrimLeft(_)
TrimLeft(s) == IF s # <<>> /\ IsSpace(Head(s)) THEN TrimLeft(Tail(s)) ELSE s

RECURSIVE TrimRight(_)
TrimRight(s) ==
    IF s # <<>> /\ IsSpace(s[Len(s)]) THEN TrimRight(SubSeq(s, 1, Len(s) - 1)) ELSE s

TrimSpace(s) == TrimRight(TrimLeft(s))

\* The nil error of a placeholder function, apart from every message.
nilError == <<"nil">>

\* What a placeholder function returns: its text and its error (nilError when
\* none), or a panic; ps is the registry with the closure's state updated.
returned(s, ps) == [s |-> s, err |-> nilError, panic |-> FALSE, ps |-> ps]

failed(err, ps) == [s |-> <<>>, err |-> err, panic |-> FALSE, ps |-> ps]

panicked(ps) == [s |-> <<>>, err |-> nilError, panic |-> TRUE, ps |-> ps]

\* color("fg", id, text) of init()
color(id, txt, ps) ==
    LET key == ToLower(TrimSpace(id)) IN
    IF ~\E c \in fgCodes : c[1] = key
    THEN failed(<<"n", "o", " ", "s", "u", "c", "h", " ", "c", "o", "l", "o", "r", ":", " ">> \o id, ps)
    ELSE LET code == (CHOOSE c \in fgCodes : c[1] = key)[2]
             str == <<"ESC", "[">> \o code \o <<"m">>
         IN  IF txt = <<>> THEN returned(str, ps)
             ELSE returned(str \o txt \o <<"ESC", "[", "m">>, ps)

\* The env placeholder: args[0], then v[0], index a string that may be empty.
envFunc(args, ps) ==
    IF args = <<>> THEN panicked(ps)
    ELSE LET v == args[1] IN
         IF v = <<>> THEN panicked(ps)
         ELSE returned(Getenv(IF v[1] = "$" THEN Tail(v) ELSE v), ps)

\* The fg placeholder.
fgFunc(args, ps) ==
    IF args = <<>> THEN panicked(ps)
    ELSE color(args[1], Join(Tail(args), <<" ">>), ps)

\* The closure the test's cyclic maker returns: Itoa(i), then i++.
counterFunc(name, ps) ==
    returned(Itoa(ps[name].i), set(ps, name, cyclicPlaceholder("counter", ps[name].i + 1)))

\* Call a placeholderFunc or cyclicPlaceholder value p bound to name.
callFunc(p, name, args, ps) ==
    CASE p.fn = "echo" -> returned(Join(args, <<" ">>), ps)
      [] p.fn = "sgl" -> returned(<<"'">>, ps)
      [] p.fn = "dbl" -> returned(<<"\"">>, ps)
      [] p.fn = "env" -> envFunc(args, ps)
      [] p.fn = "fg" -> fgFunc(args, ps)
      [] p.fn = "counter" -> counterFunc(name, ps)
      [] p.fn = "constant" -> returned(Itoa(p.i), ps)

\* The test's cyclic maker: i, _ := strconv.Atoi(args[0]); a panic without
\* arguments.  made is FALSE then.
callMaker_makesMaker(p, args) ==
    IF args = <<>> THEN [made |-> FALSE, p |-> nilPlaceholder]
    ELSE IF p.fn = "cyclic" THEN [made |-> TRUE, p |-> placeholderMaker("again")]
    ELSE [made |-> TRUE, p |-> cyclicPlaceholder("counter", Atoi(args[1]).n)]

callMaker(p, args) ==
    IF args = <<>> THEN [made |-> FALSE, p |-> nilPlaceholder]
    ELSE [made |-> TRUE, p |-> cyclicPlaceholder("counter", Atoi(args[1]).n)]

(***************************************************************************)
(* The render engine.  st carries what a render call reads and writes:     *)
(* the registry (ps), the template's cache, and the records the properties *)
(* are stated over (calls, applied, makerRuns, panic).                     *)
(***************************************************************************)
\* fmt.Sprintf("{%s: %s}", name, err)
inlineError(name, err) == <<"{">> \o name \o <<":", " ">> \o err \o <<"}">>

\* apply, after the dispatch: the error, if any, becomes the inline text.
applyResult_dropsError(name, r) == r.s

applyResult(name, r) == IF r.err # nilError THEN inlineError(name, r.err) ELSE r.s

\* tryCache: id := name + strings.Join(args, "")
cacheId_separated(name, args) == name \o <<" ">> \o Join(args, <<" ">>)

cacheId(name, args) == name \o Concat(args)

cacheHas(c, id) == \E e \in c : e.id = id

cacheGet(c, id) == CHOOSE e \in c : e.id = id

\* tryCache: t.cache[id] = &cachedPlaceholder{...}
cachePut_forgets(c, id, s, err) == c

cachePut(c, id, s, err) ==
    {e \in c : e.id # id} \cup {[id |-> id, string |-> s, error |-> err]}

\* template.dropCache: every entry holds a cyclicPlaceholder and is deleted.
dropCache_keeps(c) == c

dropCache(c) == {}

logCall(st, name, kind, args) ==
    [st EXCEPT !.calls = Append(@, [name |-> name, kind |-> kind, args |-> args])]

logApplied(st, name, args, s, how, err) ==
    [st EXCEPT !.applied =
        Append(@, [name |-> name, args |-> args, s |-> s, how |-> how, err |-> err])]

\* template.tryCache
tryCache(st, name, p, args) ==
    LET id == cacheId(name, args) IN
    IF cacheHas(st.cache, id)
    THEN LET e == cacheGet(st.cache, id)
             s == applyResult(name, [s |-> e.string, err |-> e.error])
         IN  [st |-> logApplied(st, name, args, s, "cached", e.error), s |-> s]
    ELSE LET r == callFunc(p, name, args, st.ps)
             st1 == logCall([st EXCEPT !.ps = r.ps], name, "cyclic", args)
         IN  IF r.panic THEN [st |-> [st1 EXCEPT !.panic = TRUE], s |-> <<>>]
             ELSE LET s == applyResult(name, r)
                      st2 == [st1 EXCEPT !.cache = cachePut(@, id, r.s, r.err)]
                  IN  [st |-> logApplied(st2, name, args, s, "cyclic", r.err), s |-> s]

\* template.apply
RECURSIVE apply(_, _, _)
apply(st, name, args) ==
    LET p == get(st.ps, name)
        errs == check(st.ps, name, args)
    IN  CASE p.kind = "nil" ->
               LET s == inlineError(name, <<"n", "/", "a">>)
               IN  [st |-> logApplied(st, name, args, s, "n/a", <<"n", "/", "a">>), s |-> s]
          [] p.kind # "nil" /\ errs # <<>> ->
               LET s == applyResult(name, [s |-> <<>>, err |-> usageErrorsString(errs)])
               IN  [st |-> logApplied(st, name, args, s, "usage", usageErrorsString(errs)),
                    s |-> s]
          [] p.kind = "func" /\ errs = <<>> ->
               LET r == callFunc(p, name, args, st.ps)
                   st1 == logCall([st EXCEPT !.ps = r.ps], name, "func", args)
               IN  IF r.panic THEN [st |-> [st1 EXCEPT !.panic = TRUE], s |-> <<>>]
                   ELSE LET s == applyResult(name, r)
                        IN  [st |-> logApplied(st1, name, args, s, "func", r.err), s |-> s]
          [] p.kind = "cyclic" /\ errs = <<>> -> tryCache(st, name, p, args)
          [] p.kind = "maker" /\ errs = <<>> ->
               LET m == callMaker(p, args)
                   st1 == logCall([st EXCEPT !.makerRuns[name] = @ + 1],
                                  name, "maker", args)
               IN  IF ~m.made THEN [st |-> [st1 EXCEPT !.panic = TRUE], s |-> <<>>]
                   ELSE apply([st1 EXCEPT !.ps = set(@, name, m.p)], name, args)

\* The literal text of a nested placeholder: its text children, concatenated.
RECURSIVE literalText(_)
literalText(elems) ==
    IF elems = <<>> THEN <<>>
    ELSE (IF Head(elems).type = "text" THEN Head(elems).s ELSE <<>>)
             \o literalText(Tail(elems))

\* template.renderElem: st after it and w, the bytes it wrote to its writer.
RECURSIVE renderElem(_, _, _)
RECURSIVE renderArgs(_, _, _, _)
renderElem(st, ln, elem) ==
    CASE elem.type = "text" -> [st |-> st, w |-> elem.s]
      [] elem.type = "placeholder" ->
           IF elem.name = N_text THEN [st |-> st, w |-> ln]
           ELSE LET a == apply(st, elem.name, elem.args) IN [st |-> a.st, w |-> a.s]
      [] elem.type = "nested" ->
           LET ra == renderArgs(st, ln, elem.elems, <<>>)
               sp == SplitPosix(ra.w)
           IN  IF ra.st.panic THEN [st |-> ra.st, w |-> <<>>]
               ELSE IF sp.err
               THEN LET s == <<"{">> \o elem.name \o <<":", " ", "b", "a", "d", " ", "q", "u", "o", "t", "i", "n", "g", " ", "i", "n", ":", " ">> \o ra.w \o <<"}">>
                    IN  [st |-> logApplied(ra.st, elem.name, <<ra.w>>, s,
                                           IF SplitPosix(literalText(elem.elems)).err
                                           THEN "bad literal" ELSE "bad quoting",
                                           nilError),
                         w |-> s]
               ELSE LET a == apply(ra.st, elem.name, sp.words) IN [st |-> a.st, w |-> a.s]

\* renderElem's loop over the children of a nested placeholder: text as it
\* is, anything else rendered into a quoteEscaper over the same builder.
renderArgs(st, ln, elems, args) ==
    IF elems = <<>> \/ st.panic THEN [st |-> st, w |-> args]
    ELSE LET arg == Head(elems) IN
         IF arg.type = "text"
         THEN renderArgs(st, ln, Tail(elems), args \o arg.s)
         ELSE LET r == renderElem(st, ln, arg)
              IN  renderArgs(r.st, ln, Tail(elems), args \o quoteEscaperWrite(r.w))

(***************************************************************************)
(* The template sources, lines, spec lists and argument lists the          *)
(* behaviours draw their inputs from.                                      *)
(***************************************************************************)
\* TestTemplateRender, "cyclic placeholder"
T_cyclic == <<"a", "{", "t", "e", "x", "t", "}", " ", "{", "c", "y", "c", "l", "i", "c", " ", "2", "0", "}", " ", "{", "c", "y", "c", "l", "i", "c", " ", "2", "0", "}", " ", "{", "c", "y", "c", "l", "i", "c", " ", "2", "0", "}">>

\* Two argument lists with one concatenation.
T_cyclicKeys == <<"{", "c", "y", "c", "l", "i", "c", " ", "2", " ", "0", "}", "{", "c", "y", "c", "l", "i", "c", " ", "2", "0", "}">>

T_cyclicNested == <<"{", "e", "c", "h", "o", " ", "{", "c", "y", "c", "l", "i", "c", " ", "7", "}", " ", "{", "e", "c", "h", "o", " ", "{", "c", "y", "c", "l", "i", "c", " ", "7", "}", "}", "}">>

\* A usage failure, a function error and a success, text between them.
T_errors == <<"{", "e", "n", "v", "}", " ", "{", "f", "g", " ", "n", "o", "p", "e", "}", " ", "{", "e", "n", "v", " ", "$", "H", "}", ".">>

T_envEmpty == <<"{", "e", "n", "v", " ", "\"", "\"", "}">>

T_echoText == <<"{", "e", "c", "h", "o", " ", "{", "t", "e", "x", "t", "}", "}">>

T_textText == <<"{", "t", "e", "x", "t", "}", "{", "t", "e", "x", "t", "}">>

T_echoTextQuoted == <<"{", "e", "c", "h", "o", " ", "{", "t", "e", "x", "t", "}", "'", "x", "'", "}">>

\* TestTemplateRender, "placeholder outputs quotes"
T_quotes == <<"{", "e", "c", "h", "o", " ", "x", "{", "e", "c", "h", "o", " ", "A", "{", "s", "g", "l", "}", "C", "}", " ", "{", "e", "c", "h", "o", " ", "A", "{", "d", "b", "l", "}", "C", "}", "}">>

T_openQuote == <<"{", "e", "c", "h", "o", " ", "\"", "{", "s", "g", "l", "}", "}">>

T_unbound == <<"{", "p", "i", "d", "}", "{", "n", "a", "m", "e", "}">>

T_fgText == <<"{", "f", "g", " ", "r", "e", "d", " ", "{", "t", "e", "x", "t", "}", "}">>

T_dunno == <<"{", "d", "u", "n", "n", "o", "}">>

TemplateSources ==
    {T_cyclic, T_cyclicKeys, T_cyclicNested, T_errors, T_envEmpty, T_echoText,
     T_textText, T_echoTextQuoted, T_quotes, T_openQuote, T_unbound, T_fgText,
     T_dunno}

LineBytes == {"a", " ", "'", "\\"}

Lines == SeqsUpTo(LineBytes, MaxLineLen)

\* The pieces enumerated sources are made of: the delimiters, a space, a
\* quote, a registered name, an unregistered one, a two-byte code point.
SrcPieces == {<<"{">>, <<"}">>, <<" ">>, <<"'">>, N_fg, <<"n", "o">>, <<"C3", "A9">>}

ParseSources ==
    {Concat(ps) : ps \in SeqsUpTo(SrcPieces, MaxSrcLen)}
        \cup TemplateSources \cup {<<"{", "f", "g", " ", "'", "{", "f", "g", "}", "}">>, <<"a", "b", "{", "{">>}

A_ == <<"a">>

B_ == <<"b">>

SpecAtoms ==
    {plainWord(A_), usageReq(argWord(A_)), usageOpt(usageReq(argWord(B_))),
     usageOpt(plainWord(B_)), usageReq(usageEnum(argWord(<<"c">>))),
     usageOpt(usageAlt(<<plainWord(A_), plainWord(B_)>>)),
     usageEnum(usageAlt(<<plainWord(A_), plainWord(B_)>>)),
     usageOpt(usageEnum(plainWord(A_)))}

SpecLists == SeqsUpTo(SpecAtoms, MaxSpecs)

ArgLists == SeqsUpTo({A_, B_, <<"d">>, <<>>}, MaxArgs)

(***************************************************************************)
(* Behaviours of one template: construction, then render calls.            *)
(***************************************************************************)
noResult == [kind |-> "none"]

TemplateInit(sources) ==
    /\ text \in sources
    /\ tres = noResult
    /\ placeholders = defaultPlaceholders
    /\ cache = {}
    /\ pc = "new"
    /\ line = <<>>
    /\ idx = 0
    /\ out = <<>>
    /\ renders = 0
    /\ calls = <<>>
    /\ applied = <<>>
    /\ makerRuns = [n \in DOMAIN defaultPlaceholders |-> 0]
    /\ elemOut = <<>>

UsageOff ==
    /\ uspecs = <<>>
    /\ uargs = <<>>
    /\ ures = noResult
    /\ upc = "off"

\* No String() call.
SerialOff ==
    /\ sstr = <<>>
    /\ tres2 = noResult
    /\ sstr2 = <<>>
    /\ spc = "off"

\* No usageParser.
ParserOff ==
    /\ ptext = <<>>
    /\ pres = noResult
    /\ ppc = "off"

\* No invocation.
OutputsOff ==
    /\ invPlaceholders = defaultPlaceholders
    /\ outputs = <<>>
    /\ opc = "off"

\* No render call has returned an error.
WriterOff == rerr = noResult

\* No linewiseWriter.
LinewiseOff ==
    /\ lbuf = <<>>
    /\ ldown = <<>>
    /\ lin = <<>>
    /\ lret = noResult
    /\ lerr = FALSE

\* No template.
TemplateOff ==
    /\ text = <<>>
    /\ tres = noResult
    /\ placeholders = defaultPlaceholders
    /\ cache = {}
    /\ pc = "off"
    /\ line = <<>>
    /\ idx = 0
    /\ out = <<>>
    /\ renders = 0
    /\ calls = <<>>
    /\ applied = <<>>
    /\ makerRuns = [n \in DOMAIN defaultPlaceholders |-> 0]
    /\ elemOut = <<>>

\* The variables of xvars at rest, but for those of group g.
OthersOffExcept(g) ==
    /\ IF g = "serial" THEN TRUE ELSE SerialOff
    /\ IF g = "parser" THEN TRUE ELSE ParserOff
    /\ IF g = "outputs" THEN TRUE ELSE OutputsOff
    /\ IF g = "writer" THEN TRUE ELSE WriterOff
    /\ IF g = "linewise" THEN TRUE ELSE LinewiseOff
    /\ IF g = "cleanup" THEN TRUE ELSE inv = noResult
    /\ IF g = "rotator" THEN TRUE ELSE rotator = noResult
    /\ IF g = "run" THEN TRUE ELSE cmd = noResult
    /\ IF g = "signals" THEN TRUE ELSE sig = noResult

OthersOff == OthersOffExcept("none")

Init == TemplateInit(TemplateSources) /\ UsageOff /\ OthersOff

\* newTemplate(name, text, ps)
NewTemplate ==
    /\ pc = "new"
    /\ tres' = newTemplate(text, DOMAIN placeholders)
    /\ pc' = IF tres'.kind = "template" THEN "idle" ELSE "failed"
    /\ UNCHANGED <<text, placeholders, cache, line, idx, out, renders, calls,
                   applied, makerRuns, elemOut, uvars, xvars>>

\* template.render is called with a line.
RenderBegin(ln) ==
    /\ pc = "idle"
    /\ renders < MaxRenders
    /\ pc' = "rendering"
    /\ line' = ln
    /\ idx' = 1
    /\ out' = <<>>
    /\ calls' = <<>>
    /\ applied' = <<>>
    /\ elemOut' = <<>>
    /\ UNCHANGED <<text, tres, placeholders, cache, renders, makerRuns, uvars,
                   xvars>>

\* One turn of render's loop: renderElem of t.elems[idx].  A panic unwinds
\* render, and its deferred dropCache runs.
RenderElem ==
    /\ pc = "rendering"
    /\ idx <= Len(tres.elems)
    /\ LET st == [ps |-> placeholders, cache |-> cache, calls |-> calls,
                  applied |-> applied, makerRuns |-> makerRuns, panic |-> FALSE]
           r == renderElem(st, line, tres.elems[idx])
       IN  /\ placeholders' = r.st.ps
           /\ calls' = r.st.calls
           /\ applied' = r.st.applied
           /\ makerRuns' = r.st.makerRuns
           /\ IF r.st.panic
              THEN /\ pc' = "panicked"
                   /\ cache' = dropCache(r.st.cache)
                   /\ UNCHANGED <<idx, out, elemOut>>
              ELSE /\ pc' = pc
                   /\ cache' = r.st.cache
                   /\ idx' = idx + 1
                   /\ out' = out \o r.w
                   /\ elemOut' = Append(elemOut, r.w)
    /\ UNCHANGED <<text, tres, line, renders, uvars, xvars>>

\* render returns: the deferred dropCache.
RenderReturn ==
    /\ pc = "rendering"
    /\ idx > Len(tres.elems)
    /\ cache' = dropCache(cache)
    /\ renders' = renders + 1
    /\ pc' = "idle"
    /\ UNCHANGED <<text, tres, placeholders, line, idx, out, calls, applied,
                   makerRuns, elemOut, uvars, xvars>>

Next ==
    \/ NewTemplate
    \/ \E ln \in Lines : RenderBegin(ln)
    \/ RenderElem
    \/ RenderReturn

Spec == Init /\ [][Next]_vars

(***************************************************************************)
(* Behaviours of the parser alone, over the enumerated sources.            *)
(***************************************************************************)
InitParse == TemplateInit(ParseSources) /\ UsageOff /\ OthersOff

NextParse == NewTemplate

SpecParse == InitParse /\ [][NextParse]_vars

(***************************************************************************)
(* Behaviours of usageSpecs.check, over the enumerated spec lists.         *)
(***************************************************************************)
InitUsage ==
    /\ uspecs \in SpecLists
    /\ uargs \in ArgLists
    /\ ures = noResult
    /\ upc = "args"
    /\ text = <<>>
    /\ tres = noResult
    /\ placeholders = defaultPlaceholders
    /\ cache = {}
    /\ pc = "off"
    /\ line = <<>>
    /\ idx = 0
    /\ out = <<>>
    /\ renders = 0
    /\ calls = <<>>
    /\ applied = <<>>
    /\ makerRuns = [n \in DOMAIN defaultPlaceholders |-> 0]
    /\ elemOut = <<>>
    /\ OthersOff

\* usageSpecs.check(args)
UsageCheck ==
    /\ upc = "args"
    /\ ures' = [kind |-> "checked", r |-> usageSpecsCheck(uspecs, uargs)]
    /\ upc' = "checked"
    /\ UNCHANGED <<uspecs, uargs, tvars, xvars>>

NextUsage == UsageCheck

SpecUsage == InitUsage /\ [][NextUsage]_vars

(***************************************************************************)
(* Properties.                                                             *)
(***************************************************************************)
\* A render call has returned; out, calls and applied are that call's.
Done == pc = "idle" /\ renders > 0

\* apply's calls that went through tryCache.
ViaCache(e) == e.how \in {"cyclic", "cached"}

\* C1: within one render call, the occurrences of a cyclicPlaceholder with
\* the same name and the same concatenation of arguments all return the same
\* text and its function runs exactly once for them; the next render call
\* runs it once again, so a counter shown three times reads n n n, then
\* n+1 n+1 n+1.
C1_CycleCachedOncePerRender ==
    /\ \A i, j \in 1..Len(applied) :
           (/\ ViaCache(applied[i])
            /\ ViaCache(applied[j])
            /\ applied[i].name = applied[j].name
            /\ Concat(applied[i].args) = Concat(applied[j].args))
               => applied[i].s = applied[j].s
    /\ \A i \in 1..Len(applied) :
           ViaCache(applied[i]) =>
               Cardinality({k \in 1..Len(calls) :
                               /\ calls[k].kind = "cyclic"
                               /\ calls[k].name = applied[i].name
                               /\ Concat(calls[k].args) = Concat(applied[i].args)}) = 1
    /\ (Done /\ text = T_cyclic) =>
           LET n == Itoa(20 + renders - 1)
           IN  out = <<"a">> \o line \o <<" ">> \o n \o <<" ">> \o n \o <<" ">> \o n

C1_Witness ==
    /\ Done
    /\ text = T_cyclic
    /\ renders = 2
    /\ Len(applied) = 3
    /\ applied[1].how = "cyclic"
    /\ applied[3].how = "cached"
    /\ applied[3].s = <<"2", "1">>

\* C2: the placeholderMaker bound to a name runs at most once over all the
\* render calls of a registry: its first dispatch replaces the entry by what
\* it made, the same apply call goes on with that replacement, and no later
\* call finds a maker under the name.
C2_FactoryAtMostOnce ==
    /\ \A n \in DOMAIN placeholders :
           /\ makerRuns[n] <= 1
           /\ makerRuns[n] = 1 => placeholders[n].kind = "cyclic"
           /\ makerRuns[n] = 0 => placeholders[n] = defaultPlaceholders[n]
    /\ \A k \in 1..Len(calls) :
           calls[k].kind = "maker" =>
               /\ renders = 0 \/ (renders = 1 /\ pc = "idle")
               /\ \A j \in 1..(k - 1) : calls[j].name # calls[k].name
               /\ k < Len(calls)
               /\ calls[k + 1] = [calls[k] EXCEPT !.kind = "cyclic"]

C2_Witness ==
    /\ Done
    /\ renders = 2
    /\ makerRuns[N_cyclic] = 1
    /\ placeholders[N_cyclic].kind = "cyclic"
    /\ Len(calls) = 1
    /\ calls[1].kind = "cyclic"

\* specs without its i-th element.
RemoveAt(specs, i) == SubSeq(specs, 1, i - 1) \o SubSeq(specs, i + 1, Len(specs))

\* C3: a usageOpt that is not the last spec of the list neither consumes a
\* token nor adds an error: check returns the same remaining arguments and
\* the same errors as the list without it.
C3_NonLastOptionalIsNoOp ==
    upc = "checked" =>
        \A i \in 1..(Len(uspecs) - 1) :
            uspecs[i].k = "opt" =>
                ures.r = usageSpecsCheck(RemoveAt(uspecs, i), uargs)

\* <a> [<b>] <c...> and the tokens a b: the Optional's inner spec accepts
\* the token in front of it, which <c...> then takes.
C3_Witness ==
    /\ upc = "checked"
    /\ uspecs = <<usageReq(argWord(A_)), usageOpt(usageReq(argWord(B_))),
                  usageReq(usageEnum(argWord(<<"c">>)))>>
    /\ uargs = <<A_, B_>>
    /\ specCheck(uspecs[2], Tail(uargs)).err = "nil"
    /\ ures.r = [args |-> <<>>, errs |-> <<>>]

\* C4: an occurrence whose arguments fail the usage check, or whose function
\* returns an error, is replaced where it stands by {name: error}; the
\* function of a failed check is not run, and render goes on to every
\* following element.
C4_InlineErrors ==
    /\ \A k \in 1..Len(applied) :
           applied[k].err # nilError =>
               applied[k].s = <<"{">> \o applied[k].name \o <<":", " ">>
                                  \o applied[k].err \o <<"}">>
    /\ Done => Len(elemOut) = Len(tres.elems)
    /\ (Done /\ text = T_errors) =>
           /\ out = <<"{", "e", "n", "v", ":", " ", "<", "v", "a", "r", "i", "a", "b", "l", "e", ">", " ", "n", "o", "t", " ", "s", "p", "e", "c", "i", "f", "i", "e", "d", "}", " ", "{", "f", "g", ":", " ", "n", "o", " ", "s", "u", "c", "h", " ", "c", "o", "l", "o", "r", ":", " ", "n", "o", "p", "e", "}", " ", "/", "r", ".">>
           /\ Len(calls) = 2
           /\ calls[1].name = N_fg
           /\ calls[2].name = N_env

C4_Witness ==
    /\ Done
    /\ text = T_errors
    /\ Len(elemOut) = 6
    /\ applied[1].how = "usage"
    /\ applied[2].how = "func"
    /\ applied[2].err # nilError
    /\ elemOut[5] = <<"/", "r">>

\* C5: render of a constructed template over the default registry never
\* panics, whatever the line and the argument words.
C5_RenderNeverPanics == pc # "panicked"

\* strings.Fields of a line whose only white space is the space.
RECURSIVE FieldsFrom(_, _, _)
FieldsFrom(s, word, words) ==
    IF s = <<>> THEN (IF word = <<>> THEN words ELSE Append(words, word))
    ELSE IF Head(s) = " "
         THEN FieldsFrom(Tail(s), <<>>, IF word = <<>> THEN words ELSE Append(words, word))
         ELSE FieldsFrom(Tail(s), Append(word, Head(s)), words)

Fields(s) == FieldsFrom(s, <<>>, <<>>)

Bytes(s) == {s[k] : k \in 1..Len(s)}

\* C6, as the specification states it: every {text}, nested or not, gives
\* the bytes of the line unchanged.
C6_TextIsTheLine ==
    Done =>
        /\ text = T_textText => out = line \o line
        /\ text = T_echoText => out = line

\* C6, as the code has it: a top-level {text} gives the bytes of the line; a
\* {text} under another placeholder is quote-escaped and split into words
\* again, so {echo {text}} gives the words of a line without backslashes
\* joined by single spaces, quotes included.
C6_TopLevelTextIsTheLine ==
    /\ \A i \in 1..Len(elemOut) :
           (tres.elems[i].type = "placeholder" /\ tres.elems[i].name = N_text)
               => elemOut[i] = line
    /\ (Done /\ text = T_echoText /\ "\\" \notin Bytes(line)) =>
           out = Join(Fields(line), <<" ">>)

C6_Witness ==
    /\ Done
    /\ text = T_echoText
    /\ line = <<"'", " ", "a">>
    /\ out = line

\* C7: the rendered arguments of a nested placeholder whose own literal text
\* has balanced quotes always split into words; no bad quoting comes of
\* what a child wrote.
C7_ChildOutputNeverBreaksQuoting ==
    \A k \in 1..Len(applied) : applied[k].how # "bad quoting"

\* Number of code points in the first b bytes of t.
CodePointOffset(t, b) == Cardinality({k \in 1..b : t[k] # "A9"})

\* The first index from i on whose byte is not a space.
RECURSIVE SkipSpaces(_, _)
SkipSpaces(t, i) == IF i <= Len(t) /\ t[i] = " " THEN SkipSpaces(t, i + 1) ELSE i

\* The first index from i on whose byte ends a name.
RECURSIVE NameEnd(_, _)
NameEnd(t, i) ==
    IF i <= Len(t) /\ t[i] \notin {" ", "{", "}"} THEN NameEnd(t, i + 1) ELSE i

\* The first index from i on whose byte is a delimiter.
RECURSIVE BodyEnd(_, _)
BodyEnd(t, i) ==
    IF i <= Len(t) /\ t[i] \notin {"{", "}"} THEN BodyEnd(t, i + 1) ELSE i

\* The byte at index b of t opens a placeholder, top-level or nested, and
\* nothing before it is an error: the text before it parses or only lacks
\* closing delimiters, and an opening delimiter after it is where a
\* placeholder starts.
Opens(t, b) ==
    /\ t[b] = "{"
    /\ LET r == newTemplate(SubSeq(t, 1, b - 1), DOMAIN defaultPlaceholders)
       IN  \/ r.kind = "template"
           \/ r.kind = "error" /\ r.cause = errUnterminatedPlaceholder
    /\ LET r == newTemplate(SubSeq(t, 1, b), DOMAIN defaultPlaceholders)
       IN  r.kind = "error" /\ r.cause = errMissingPlaceholderName

\* The placeholder opened at b has a name, read up to a space, a closing
\* delimiter or the end, that is not in the registry.
UnknownNameAt(t, b) ==
    /\ Opens(t, b)
    /\ LET s == SkipSpaces(t, b + 1)
           e == NameEnd(t, s)
       IN  /\ e > s
           /\ e > Len(t) \/ t[e] # "{"
           /\ SubSeq(t, s, e - 1) \notin DOMAIN defaultPlaceholders

\* C8: a placeholder, top-level or nested, whose name is not in the
\* registry makes newTemplate fail with errNoSuchPlaceholder at the offset,
\* in code points, of the first character of the name.
C8_NoSuchPlaceholderAtName ==
    pc # "new" =>
        \A b \in 1..Len(text) :
            UnknownNameAt(text, b) =>
                tres = errAt(CodePointOffset(text, SkipSpaces(text, b + 1) - 1),
                             errNoSuchPlaceholder)

\* The same, with the offset counted in bytes.
NoSuchPlaceholderAtNameByte ==
    pc # "new" =>
        \A b \in 1..Len(text) :
            UnknownNameAt(text, b) =>
                tres = errAt(SkipSpaces(text, b + 1) - 1, errNoSuchPlaceholder)

\* The literal text of every nested placeholder of the tree splits.
RECURSIVE LiteralsBalanced(_)
LiteralsBalanced(elems) ==
    \A i \in 1..Len(elems) :
        elems[i].type = "nested" =>
            /\ ~SplitPosix(literalText(elems[i].elems)).err
            /\ LiteralsBalanced(elems[i].elems)

\* C9, as the specification states it: a template is only constructed when
\* the literal text of every placeholder body, the runs around nested
\* placeholders included, has balanced quotes.
C9_ConstructedMeansBalanced ==
    (pc # "new" /\ tres.kind = "template") => LiteralsBalanced(tres.elems)

\* The placeholder opened at b has a registered name and a body without
\* nested placeholders, closed, whose quotes are unbalanced.
UnbalancedBodyAt(t, b) ==
    /\ Opens(t, b)
    /\ LET s == SkipSpaces(t, b + 1)
           e == NameEnd(t, s)
           a == SkipSpaces(t, e)
           z == BodyEnd(t, a)
       IN  /\ SubSeq(t, s, e - 1) \in DOMAIN defaultPlaceholders
           /\ z <= Len(t)
           /\ t[z] = "}"
           /\ SplitPosix(SubSeq(t, a, z - 1)).err

\* C9, as the code has it: construction checks the quotes of the
\* placeholders that have no nested placeholder in their body, and fails at
\* the byte after the opening delimiter.
C9_PlainBodiesAreChecked ==
    pc # "new" =>
        \A b \in 1..Len(text) :
            UnbalancedBodyAt(text, b) => tres = errAt(b, errUnbalancedQuotes)

C9_Witness ==
    /\ pc = "failed"
    /\ text = <<"{", "f", "g", " ", "'", "}">>
    /\ UnbalancedBodyAt(text, 1)
    /\ tres.cause = errUnbalancedQuotes

\* The placeholder opened at b has another opening delimiter where its name
\* should start.
DelimiterForNameAt(t, b) ==
    /\ Opens(t, b)
    /\ LET s == SkipSpaces(t, b + 1) IN s <= Len(t) /\ t[s] = "{"

\* C10: the position of a templateError is a zero-based offset in code
\* points from the start of the source: it lies within the source, and
\* where an opening delimiter stands in place of a name it is the offset of
\* that delimiter.
C10_PositionsAreCodePointOffsets ==
    (pc # "new" /\ tres.kind = "error") =>
        /\ tres.pos \in 0..CodePointOffset(text, Len(text))
        /\ \A b \in 1..Len(text) :
               DelimiterForNameAt(text, b) =>
                   tres = errAt(CodePointOffset(text, SkipSpaces(text, b + 1) - 1),
                                errMissingPlaceholderName)

\* The nesting depth at the end of t, from depth d before index i; 0 as
\* soon as a closing delimiter brings it there.
RECURSIVE DepthFrom(_, _, _)
DepthFrom(t, i, d) ==
    IF i > Len(t) \/ d = 0 THEN d
    ELSE DepthFrom(t, i + 1, CASE t[i] = "{" -> d + 1 [] t[i] = "}" -> d - 1 [] OTHER -> d)

\* The placeholder opened at b has a registered name and everything a
\* placeholder needs but its closing delimiter: the placeholders nested in
\* it are closed, it is not, and with a closing delimiter appended the
\* source from b on is that one placeholder.
UnterminatedAt(t, b) ==
    /\ Opens(t, b)
    /\ DepthFrom(t, b + 1, 1) = 1
    /\ LET s == SkipSpaces(t, b + 1)
           e == NameEnd(t, s)
           r == newTemplate(SubSeq(t, b, Len(t)) \o <<"}">>, DOMAIN defaultPlaceholders)
       IN  /\ SubSeq(t, s, e - 1) \in DOMAIN defaultPlaceholders
           /\ \/ r.kind = "template" /\ Len(r.elems) = 1
              \/ r = errAt(1, errUnbalancedQuotes)

\* C11, as the specification states it: the end of the source before the
\* closing delimiter of a placeholder with a registered name fails with
\* errUnterminatedPlaceholder at the offset of its opening delimiter.
C11_UnterminatedAtDelimiter ==
    pc # "new" =>
        \A b \in 1..Len(text) :
            UnterminatedAt(text, b) =>
                tres = errAt(CodePointOffset(text, b - 1), errUnterminatedPlaceholder)

\* C11, as the code has it: the position is the byte after the opening
\* delimiter.
C11_UnterminatedAfterDelimiter ==
    pc # "new" =>
        \A b \in 1..Len(text) :
            UnterminatedAt(text, b) => tres = errAt(b, errUnterminatedPlaceholder)

C11_Witness ==
    /\ pc = "failed"
    /\ text = <<"{", "f", "g", " ", "{", "f", "g">>
    /\ UnterminatedAt(text, 5)
    /\ tres = errAt(5, errUnterminatedPlaceholder)

(***************************************************************************)
(* template.String and the round trip through newTemplate.                 *)
(***************************************************************************)
\* strs(e.args).transform(strconv.Quote)
RECURSIVE quoteAll(_)
quoteAll(args) ==
    IF args = <<>> THEN <<>> ELSE <<strconvQuote(Head(args))>> \o quoteAll(Tail(args))

\* The String methods of textElem, placeholderElem, nestedPlaceholderElem.
RECURSIVE elemString(_)
RECURSIVE elemsString(_)
elemString(e) ==
    CASE e.type = "text" -> e.s
      [] e.type = "placeholder" ->
           <<"{">> \o e.name
               \o (IF e.args # <<>> THEN <<" ">> \o Join(quoteAll(e.args), <<" ">>) ELSE <<>>)
               \o <<"}">>
      [] e.type = "nested" -> <<"{">> \o e.name \o <<" ">> \o elemsString(e.elems) \o <<"}">>

\* template.String
elemsString(elems) ==
    IF elems = <<>> THEN <<>> ELSE elemString(Head(elems)) \o elemsString(Tail(elems))

templateString(t) == elemsString(t.elems)

MaxBodyLen == 3    \* bytes of an enumerated placeholder body

ArgBytes == {"a", " ", "'", "\"", "\\", "\t"}

\* TestTemplateParse, "valid", with names of the modelled registry.
ValidSources ==
    {<<>>, <<"a", " ", "{", "p", "i", "d", "}", " ", "c">>, <<"{", "t", "e", "x", "t", "}">>, <<"{", "p", "i", "d", "}", " ", "{", "p", "i", "d", "}", " ", "{", "t", "e", "x", "t", "}", "{", "t", "e", "x", "t", "}">>,
     <<"{", "f", "g", " ", " ", " ", "a", " ", "b", " ", "c", "}", " ", "a", "s", "d", "f", " ", "{", "p", "i", "d", "}", " ">>, <<" ", "{", "f", "g", "}", " ", "{", "p", "i", "d", "}", " ">>, <<"{", "f", "g", " ", "{", "f", "g", " ", "e", "c", "h", "o", " ", "h", "i", "}", "}", " ", "y", "o", "u">>,
     <<"{", "f", "g", " ", "{", "f", "g", " ", "{", "f", "g", " ", "}", " ", "}", " ", "t", "e", "s", "t", "}">>, <<"x", "y", "z", "{", "f", "g", " ", "{", "f", "g", "}", "}", "a", "b", "c">>}

RoundTripSources ==
    {<<"{", "f", "g", " ">> \o body \o <<"}">> : body \in SeqsUpTo(ArgBytes, MaxBodyLen)}
        \cup ValidSources \cup TemplateSources

InitRoundTrip ==
    /\ TemplateInit(RoundTripSources)
    /\ UsageOff
    /\ sstr = <<>>
    /\ tres2 = noResult
    /\ sstr2 = <<>>
    /\ spc = "built"
    /\ OthersOffExcept("serial")

\* t.String()
String ==
    /\ pc = "idle"
    /\ spc = "built"
    /\ sstr' = templateString(tres)
    /\ spc' = "printed"
    /\ UNCHANGED <<tvars, uvars, tres2, sstr2, pvars, ovars, wvars, lvars, inv, rotator, cmd, sig>>

\* newTemplate(name, t.String(), ps), and String() of what it returns.
Reparse ==
    /\ spc = "printed"
    /\ tres2' = newTemplate(sstr, DOMAIN placeholders)
    /\ sstr2' = IF tres2'.kind = "template" THEN templateString(tres2') ELSE <<>>
    /\ spc' = "reparsed"
    /\ UNCHANGED <<tvars, uvars, sstr, pvars, ovars, wvars, lvars, inv, rotator, cmd, sig>>

NextRoundTrip ==
    \/ NewTemplate
    \/ String
    \/ Reparse

SpecRoundTrip == InitRoundTrip /\ [][NextRoundTrip]_vars

\* C12: the serialization of a parsed template parses again, to the same
\* tree, and serializes to the same text.
C12_RoundTrip ==
    spc = "reparsed" =>
        /\ tres2.kind = "template"
        /\ tres2.elems = tres.elems
        /\ sstr2 = sstr

\* The same, for the sources whose argument words hold no control character.
RoundTripWithoutControlCharacters ==
    (spc = "reparsed" /\ "\t" \notin Bytes(text)) =>
        /\ tres2.kind = "template"
        /\ tres2.elems = tres.elems
        /\ sstr2 = sstr

\* TestTemplateParse, "valid": the serializations the test expects.
StringAsTested ==
    spc # "built" =>
        /\ text = <<"{", "f", "g", " ", " ", " ", "a", " ", "b", " ", "c", "}", " ", "a", "s", "d", "f", " ", "{", "p", "i", "d", "}", " ">> => sstr = <<"{", "f", "g", " ", "\"", "a", "\"", " ", "\"", "b", "\"", " ", "\"", "c", "\"", "}", " ", "a", "s", "d", "f", " ", "{", "p", "i", "d", "}", " ">>
        /\ text = <<"{", "f", "g", " ", "{", "f", "g", " ", "e", "c", "h", "o", " ", "h", "i", "}", "}", " ", "y", "o", "u">> => sstr = <<"{", "f", "g", " ", "{", "f", "g", " ", "\"", "e", "c", "h", "o", "\"", " ", "\"", "h", "i", "\"", "}", "}", " ", "y", "o", "u">>
        /\ text = <<"{", "f", "g", " ", "{", "f", "g", " ", "{", "f", "g", " ", "}", " ", "}", " ", "t", "e", "s", "t", "}">> => sstr = <<"{", "f", "g", " ", "{", "f", "g", " ", "{", "f", "g", "}", " ", "}", " ", "t", "e", "s", "t", "}">>
        /\ text = <<"x", "y", "z", "{", "f", "g", " ", "{", "f", "g", "}", "}", "a", "b", "c">> => sstr = <<"x", "y", "z", "{", "f", "g", " ", "{", "f", "g", "}", "}", "a", "b", "c">>

(***************************************************************************)
(* Sources without an opening delimiter, constructed and rendered.         *)
(***************************************************************************)
MaxPlainLen == 3   \* pieces of an enumerated source without placeholder

PlainPieces == {<<"a">>, <<" ">>, <<"'">>, <<"\\">>, <<"}">>, <<"C3", "A9">>}

PlainSources == {Concat(ps) : ps \in SeqsUpTo(PlainPieces, MaxPlainLen)}

InitPlain == TemplateInit(PlainSources) /\ UsageOff /\ OthersOff

SpecPlain == InitPlain /\ [][Next]_vars

\* C13, as the specification states it: a source without placeholder is
\* constructed and rendered as it is, whatever the line.
C13_PlainSourceVerbatim ==
    "{" \notin Bytes(text) =>
        /\ pc \notin {"failed", "panicked"}
        /\ Done => out = text

\* C13, as the code has it: a source with neither delimiter is constructed
\* and rendered as it is, whatever the line; a closing delimiter outside a
\* placeholder fails the construction.
C13_DelimiterFreeSourceVerbatim ==
    /\ ("{" \notin Bytes(text) /\ "}" \notin Bytes(text)) =>
           /\ pc \notin {"failed", "panicked"}
           /\ pc # "new" => tres.kind = "template"
           /\ Done => out = text
    /\ ("{" \notin Bytes(text) /\ "}" \in Bytes(text) /\ pc # "new") =>
           /\ pc = "failed"
           /\ tres.kind = "error"
           /\ tres.cause = errUnexpectedClosingDelimiter

C13_Witness ==
    /\ Done
    /\ renders = 2
    /\ text = <<"a", "'", " ">>
    /\ line = <<"\\", "a">>
    /\ out = text

(***************************************************************************)
(* usageParser: the text is a sequence of runes, pos an index into it.     *)
(* A failed expectation panics with an error that parse recovers; the      *)
(* operators below return [ok |-> FALSE, ...] for it and their callers     *)
(* pass it on.                                                             *)
(***************************************************************************)
Letters ==
    {"a", "b", "c", "d", "e", "f", "g", "h", "i", "j", "k", "l", "m", "n", "o",
     "p", "q", "r", "s", "t", "u", "v", "w", "x", "y", "z", "A", "R", "G"}

Numbers == {"1", "2"}

isArgChar(r) == r \in {"-", "_"} \cup Letters \cup Numbers

\* p.next(): the rune read and the position after it
usageParserNext(t, pos) ==
    IF pos = Len(t) THEN [r |-> eof, pos |-> pos]
    ELSE [r |-> t[pos + 1], pos |-> pos + 1]

\* p.prev(): the position after it
usageParserPrev(pos) == IF pos = 0 THEN 0 ELSE pos - 1

\* p.err
usageParserErr(name, pos) == [ok |-> FALSE, fn |-> name, pos |-> pos]

parsed(u, pos) == [ok |-> TRUE, spec |-> u, pos |-> pos]

RECURSIVE expectRun(_, _, _, _)
expectRun(t, pos, name, run) ==
    IF run = <<>> THEN [ok |-> TRUE, pos |-> pos]
    ELSE LET n == usageParserNext(t, pos)
         IN  IF n.r # Head(run) THEN usageParserErr(name, n.pos)
             ELSE expectRun(t, n.pos, name, Tail(run))

expectAny(t, pos, name, any) ==
    LET n == usageParserNext(t, pos)
    IN  IF n.r \in any THEN [ok |-> TRUE, pos |-> n.pos]
        ELSE usageParserErr(name, n.pos)

convert(a, s) == IF a.typ = "plain" THEN plainWord(s) ELSE argWord(s)

Ellipsis == <<".", ".", ".">>

RECURSIVE parseAltLoop(_, _, _, _, _, _)
parseAltLoop(t, pos, first, end, alt, buf) ==
    LET n == usageParserNext(t, pos)
    IN  IF n.r = "|"
        THEN IF buf = <<>> THEN usageParserErr("parseAlt", n.pos)
             ELSE parseAltLoop(t, n.pos, first, end,
                               Append(alt, convert(first, buf)), <<>>)
        ELSE IF isArgChar(n.r)
        THEN parseAltLoop(t, n.pos, first, end, alt, Append(buf, n.r))
        ELSE IF n.r = end \/ n.r = eof \/ n.r = "."
        THEN LET alt2 == IF buf # <<>> THEN Append(alt, convert(first, buf))
                         ELSE alt
             IN  IF Len(alt2) < 2 THEN usageParserErr("parseAlt", n.pos)
                 ELSE IF n.r = "."
                 THEN LET run == expectRun(t, usageParserPrev(n.pos),
                                           "parseAlt", Ellipsis)
                          any == expectAny(t, run.pos, "parseAlt", {end, eof})
                      IN  IF ~run.ok THEN run
                          ELSE IF ~any.ok THEN any
                          ELSE parsed(usageEnum(usageAlt(alt2)), any.pos)
                 ELSE parsed(usageAlt(alt2), n.pos)
        ELSE usageParserErr("parseAlt", n.pos)

parseAlt(t, pos, first, end) ==
    IF Len(first.val) = 0 THEN usageParserErr("parseAlt", pos)
    ELSE parseAltLoop(t, pos, first, end, <<first>>, <<>>)

RECURSIVE parseWordLoop(_, _, _)
parseWordLoop(t, pos, buf) ==
    LET n == usageParserNext(t, pos)
    IN  IF isArgChar(n.r) THEN parseWordLoop(t, n.pos, Append(buf, n.r))
        ELSE IF n.r = "|" THEN parseAlt(t, n.pos, plainWord(buf), " ")
        ELSE IF buf = <<>> THEN usageParserErr("parseWord", n.pos)
        ELSE parsed(plainWord(buf), n.pos)

parseWord(t, pos) == parseWordLoop(t, pos, <<>>)

RECURSIVE parseReqLoop(_, _, _)
parseReqLoop(t, pos, buf) ==
    LET n == usageParserNext(t, pos)
    IN  IF n.r = ">"
        THEN IF buf = <<>> THEN usageParserErr("parseReq", n.pos)
             ELSE parsed(usageReq(argWord(buf)), n.pos)
        ELSE IF n.r = "|"
        THEN LET alt == parseAlt(t, n.pos, argWord(buf), ">")
             IN  IF ~alt.ok THEN alt ELSE parsed(usageReq(alt.spec), alt.pos)
        ELSE IF n.r = "."
        THEN LET run == expectRun(t, usageParserPrev(n.pos), "parseReq",
                                  Ellipsis \o <<">">>)
             IN  IF ~run.ok THEN run
                 ELSE IF buf = <<>> THEN usageParserErr("parseReq", run.pos)
                 ELSE parsed(usageReq(usageEnum(argWord(buf))), run.pos)
        ELSE IF isArgChar(n.r) THEN parseReqLoop(t, n.pos, Append(buf, n.r))
        ELSE usageParserErr("parseReq", n.pos)

parseReq(t, pos) == parseReqLoop(t, pos, <<>>)

\* s is <<>> for the nil usageSpec, <<u>> otherwise.
RECURSIVE parseOptLoop(_, _, _, _)
parseOptLoop(t, pos, buf, s) ==
    LET n == usageParserNext(t, pos)
    IN  IF n.r = "<"
        THEN IF buf # <<>> THEN usageParserErr("parseOpt", n.pos)
             ELSE LET req == parseReq(t, n.pos)
                  IN  IF ~req.ok THEN req
                      ELSE parseOptLoop(t, req.pos, buf, <<req.spec>>)
        ELSE IF n.r = "]"
        THEN IF s = <<>>
             THEN IF buf = <<>> THEN usageParserErr("parseOpt", n.pos)
                  ELSE parsed(usageOpt(plainWord(buf)), n.pos)
             ELSE parsed(usageOpt(s[1]), n.pos)
        ELSE IF n.r = "|"
        THEN LET alt == parseAlt(t, n.pos, plainWord(buf), "]")
             IN  IF ~alt.ok THEN alt ELSE parsed(usageOpt(alt.spec), alt.pos)
        ELSE IF n.r = "."
        THEN LET run == expectRun(t, usageParserPrev(n.pos), "parseOpt",
                                  Ellipsis \o <<"]">>)
             IN  IF ~run.ok THEN run
                 ELSE IF s = <<>>
                 THEN IF buf = <<>> THEN usageParserErr("parseOpt", run.pos)
                      ELSE parsed(usageOpt(usageEnum(plainWord(buf))), run.pos)
                 ELSE parsed(usageOpt(usageEnum(s[1])), run.pos)
        ELSE IF isArgChar(n.r) THEN parseOptLoop(t, n.pos, Append(buf, n.r), s)
        ELSE usageParserErr("parseOpt", n.pos)

parseOpt(t, pos) == parseOptLoop(t, pos, <<>>, <<>>)

\* The enum methods of the usage specs.
enum(u) ==
    CASE u.k = "word" -> usageEnum(u)
      [] u.k \in {"opt", "req"} ->
            IF u.sub[1].k = "enum" THEN u
            ELSE [u EXCEPT !.sub = <<usageEnum(u.sub[1])>>]
      [] u.k = "enum" -> u
      [] u.k = "alt" -> usageEnum(u)

\* parse's named results when the deferred function has run: the specs
\* appended so far, and the recovered error if there is one.
parseReturn(specs, e) ==
    [kind |-> "parsed", ok |-> e.ok, specs |-> specs, fn |-> e.fn, pos |-> e.pos]

RECURSIVE parseSpecsLoop(_, _, _)
parseSpecsLoop(t, pos, specs) ==
    LET n == usageParserNext(t, pos)
        s == IF n.r = "[" THEN parseOpt(t, n.pos)
             ELSE IF n.r = "<" THEN parseReq(t, n.pos)
             ELSE parseWord(t, usageParserPrev(n.pos))
    IN  IF n.r = " " THEN parseSpecsLoop(t, n.pos, specs)
        ELSE IF n.r = "."
        THEN LET run == expectRun(t, usageParserPrev(n.pos), "parse", Ellipsis)
             IN  IF ~run.ok THEN parseReturn(specs, run)
                 ELSE IF Len(specs) = 0
                 THEN parseReturn(specs, usageParserErr("parse", run.pos))
                 ELSE parseSpecsLoop(t, run.pos,
                          [specs EXCEPT ![Len(specs)] = enum(specs[Len(specs)])])
        ELSE IF n.r = eof
        THEN parseReturn(specs, [ok |-> TRUE, fn |-> "", pos |-> n.pos])
        ELSE IF ~s.ok THEN parseReturn(specs, s)
        ELSE parseSpecsLoop(t, s.pos, Append(specs, s.spec))

\* newUsageParser(text).parse()
usageParse(t) == parseSpecsLoop(t, 0, <<>>)

(***************************************************************************)
(* Behaviours of usageParser.parse, over the enumerated spec texts.        *)
(***************************************************************************)
MaxUsageLen == 4    \* pieces of an enumerated usage spec text

UsagePieces ==
    {<<"<">>, <<">">>, <<"[">>, <<"]">>, <<"|">>, Ellipsis, <<".">>, <<" ">>,
     <<"a">>, <<"b">>, <<"!">>}

\* TestUsageParser, "valid"
ValidUsages ==
    {<<"a", " ", "b", " ", "c">>,
     <<"a", " ", "b", "b", " ", "c", "c", "c", " ">>,
     <<"a", "a", "|", "b", "b">>,
     <<"a", "a", "|", "b", "b", "|", "c", "c">>,
     <<"a", "a", "|", "b", "b", "|", "c", "c", ".", ".", ".">>,
     <<"[", "a", "b", "c", "]">>,
     <<"[", "a", "|", "b", "|", "c", "]">>,
     <<"[", "<", "a", "|", "b", "|", "c", ">", "]">>,
     <<"[", "<", "a", "b", "c", ">", "]">>,
     <<"<", "a", "r", "g", ">", " ", "<", "A", "R", "G", ">">>,
     <<"<", "a", "r", "g", ">", ".", ".", ".">>,
     <<"<", "a", "r", "g", ".", ".", ".", ">">>,
     <<"<", "a", "r", "g", ".", ".", ".", ">", ".", ".", ".">>,
     <<"a", "b", "c", " ", "<", "x", "y", "z", ">", ".", ".", ".", " ", "[", "1", "|", "2", "]", ".", ".", ".">>,
     <<"<", "a", "b", "c", ">", " ", "[", "<", "x", "y", "z", ".", ".", ".", ">", "]">>,
     <<"[", "a", "b", "c", ".", ".", ".", "]", " ", "<", "x", "y", "z", ">">>,
     <<"<", "a", ">", " ", "[", "<", "b", ">", "]", " ", "<", "c", ">", ".", ".", ".">>,
     <<"<", "a", ">", " ", "[", "<", "b", ">", "]", " ", "<", "c", ".", ".", ".", ">">>}

\* A term of each form, before its ellipsis.
UsageTerms ==
    {<<"a">>, <<"a", "b", "c">>, <<"<", "a", ">">>, <<"[", "a", "]">>, <<"[", "<", "a", ">", "]">>, <<"a", "|", "b">>, <<"<", "a", "|", "b", ">">>, <<"[", "a", "|", "b", "]">>, <<"<", "a", "r", "g", ".", ".", ".", ">">>, <<"[", "a", ".", ".", ".", "]">>}

UsageTexts ==
    {Concat(ps) : ps \in SeqsUpTo(UsagePieces, MaxUsageLen)}
        \cup ValidUsages \cup UsageTerms
        \cup {term \o Ellipsis : term \in UsageTerms}
        \cup {<<"<", "c", "o", "m", "m", "a", "n", "d", ">", " ", "[", "<", "a", "r", "g", "u", "m", "e", "n", "t", "s", ">", ".", ".", ".", "]">>, <<"<", "c", "o", "l", "o", "r", ">", " ", "[", "<", "a", "r", "g", "u", "m", "e", "n", "t", "s", ".", ".", ".", ">", "]">>}

InitUsageParse ==
    /\ TemplateOff
    /\ UsageOff
    /\ ptext \in UsageTexts
    /\ pres = noResult
    /\ ppc = "text"
    /\ OthersOffExcept("parser")

\* newUsageParser(text).parse()
UsageParse ==
    /\ ppc = "text"
    /\ pres' = usageParse(ptext)
    /\ ppc' = "parsed"
    /\ UNCHANGED <<ptext, tvars, uvars, svars, ovars, wvars, lvars, inv, rotator, cmd, sig>>

NextUsageParse == UsageParse

SpecUsageParse == InitUsageParse /\ [][NextUsageParse]_vars

\* The brackets of t from byte i on close the open ones of stack, innermost
\* first, and leave none open.
RECURSIVE BracketsClose(_, _, _)
BracketsClose(t, i, stack) ==
    IF i > Len(t) THEN stack = <<>>
    ELSE IF t[i] \in {"<", "["} THEN BracketsClose(t, i + 1, <<t[i]>> \o stack)
    ELSE IF t[i] \in {">", "]"}
    THEN /\ stack # <<>>
         /\ Head(stack) = (IF t[i] = ">" THEN "<" ELSE "[")
         /\ BracketsClose(t, i + 1, Tail(stack))
    ELSE BracketsClose(t, i + 1, stack)

BracketsBalanced(t) == BracketsClose(t, 1, <<>>)

\* C14: parse returns an error for every spec text whose brackets are
\* unbalanced or mismatched, and for every text with a character outside the
\* grammar; it returns a spec list for neither.
C14_MalformedIsRejected ==
    (/\ ppc = "parsed"
     /\ \/ ~BracketsBalanced(ptext)
        \/ \E i \in 1..Len(ptext) :
              ~isArgChar(ptext[i]) /\ ptext[i] \notin {"<", ">", "[", "]", "|", ".", " "})
        => ~pres.ok

\* C15: a term that parses to one spec, followed immediately by an ellipsis,
\* parses to the repetition of that spec, and to the spec itself when it is
\* repeated already.
C15_EllipsisAfterEveryTerm ==
    (/\ ppc = "parsed"
     /\ \E term \in UsageTerms : ptext = term \o Ellipsis)
        => LET term == CHOOSE u \in UsageTerms : ptext = u \o Ellipsis
               one == usageParse(term)
           IN  /\ one.ok
               /\ Len(one.specs) = 1
               /\ pres.ok
               /\ pres.specs = <<enum(one.specs[1])>>

\* The arguments in front of the i-th spec of the list, and what its check
\* leaves of them and reports once the rule for optionals has been applied.
RECURSIVE ArgsBefore(_, _, _)
RECURSIVE Outcome(_, _, _)
ArgsBefore(specs, args, i) ==
    IF i = 1 THEN args ELSE Outcome(specs, args, i - 1).args

Outcome(specs, args, i) ==
    optOutcome(specs[i].k = "opt", i = Len(specs), ArgsBefore(specs, args, i),
               specCheck(specs[i], ArgsBefore(specs, args, i)))

\* The positions from i on whose spec fails, in list order.
RECURSIVE FailingFrom(_, _, _)
FailingFrom(specs, args, i) ==
    IF i > Len(specs) THEN <<>>
    ELSE (IF Outcome(specs, args, i).err # "nil" THEN <<i>> ELSE <<>>)
             \o FailingFrom(specs, args, i + 1)

\* C16: check goes through the whole list: it returns one usage error for
\* each spec that fails and is not suppressed, in list order, with the
\* spec's rendered form, the cause, and the first token remaining after that
\* spec (empty when none remains).
C16_OneErrorPerFailingSpec ==
    upc = "checked" =>
        LET failing == FailingFrom(uspecs, uargs, 1)
            errs == ures.r.errs
        IN  /\ Len(errs) = Len(failing)
            /\ \A k \in 1..Len(failing) :
                  LET o == Outcome(uspecs, uargs, failing[k])
                  IN  /\ errs[k].spec = specString(uspecs[failing[k]])
                      /\ errs[k].cause = o.err
                      /\ errs[k].arg = IF o.args = <<>> THEN <<>> ELSE o.args[1]

\* a <a> against the single token b: the plain word does not match it, the
\* required argument after it takes it, and <a> after that finds none left.
C16_Witness ==
    /\ upc = "checked"
    /\ uspecs = <<plainWord(A_), usageReq(argWord(A_)), usageReq(argWord(A_))>>
    /\ uargs = <<B_>>
    /\ Len(ures.r.errs) = 2
    /\ ures.r.errs[1] = [spec |-> A_, arg |-> B_, cause |-> errNotMatched]
    /\ ures.r.errs[2] = [spec |-> <<"<", "a", ">">>, arg |-> <<>>,
                         cause |-> errNotSpecified]

(***************************************************************************)
(* The two output streams of an invocation: setOutputs builds the stdout   *)
(* and the stderr template over inv.placeholders, and each line of a       *)
(* stream is rendered by its template.                                     *)
(***************************************************************************)
MaxStreamLines == 2    \* lines rendered per stream

Streams == {"stdout", "stderr"}

StreamSources == {<<>>, <<"{", "c", "y", "c", "l", "i", "c", " ", "2", "0", "}", " ", "{", "t", "e", "x", "t", "}">>, <<"{", "c", "y", "c", "l", "i", "c", " ", "5", "}">>, <<"{", "e", "c", "h", "o", " ", "{", "t", "e", "x", "t", "}", "}">>}

StreamLines == {<<>>, <<"a">>}

\* template.render's loop over t.elems, into a writer that takes every byte.
RECURSIVE renderAll(_, _, _, _)
RECURSIVE renderRest(_, _, _, _)
renderAll(st, ln, elems, w) ==
    IF elems = <<>> \/ st.panic THEN [st |-> st, w |-> w]
    ELSE renderRest(renderElem(st, ln, Head(elems)), ln, Tail(elems), w)

\* The loop after renderElem has returned r for an element.
renderRest(r, ln, elems, w) == renderAll(r.st, ln, elems, w \o r.w)

\* A render call that begins: the registry is ps, the cache is empty.
renderState(ps) ==
    [ps |-> ps, cache |-> {}, calls |-> <<>>, applied |-> <<>>,
     makerRuns |-> [n \in DOMAIN ps |-> 0], panic |-> FALSE]

\* What a render call that ended as r leaves: the registry and the output.
rendered(r) == [ps |-> r.st.ps, w |-> r.w, panic |-> r.st.panic]

\* A render call of template t with the registry ps and the line ln.
renderWith(t, ps, ln) == rendered(renderAll(renderState(ps), ln, t.elems, <<>>))

InitOutputs ==
    /\ TemplateOff
    /\ UsageOff
    /\ invPlaceholders = defaultPlaceholders
    /\ outputs \in [Streams -> {[template |-> src, t |-> noResult, lines |-> <<>>,
                                 outs |-> <<>>] : src \in StreamSources}]
    /\ opc = "new"
    /\ OthersOffExcept("outputs")

\* setOutputs: newTemplate(c.name, c.template, inv.placeholders) for each
\* stream with a template; nothing to do without any.
setOutputs ==
    /\ opc = "new"
    /\ LET built == [c \in Streams |->
                        IF outputs[c].template = <<>> THEN noResult
                        ELSE newTemplate(outputs[c].template, DOMAIN invPlaceholders)]
       IN  /\ outputs' = [c \in Streams |-> [outputs[c] EXCEPT !.t = built[c]]]
           /\ opc' = IF \/ \A c \in Streams : outputs[c].template = <<>>
                        \/ \E c \in Streams : built[c].kind = "error"
                     THEN "failed" ELSE "set"
    /\ UNCHANGED <<invPlaceholders, tvars, uvars, svars, pvars, wvars, lvars, inv, rotator, cmd, sig>>

\* templateWriter.Write of stream c with the line ln: t.render over the
\* registry the template was given.
StreamRendered(c, ln, r) ==
    /\ invPlaceholders' = r.ps
    /\ outputs' = [outputs EXCEPT ![c].lines = Append(@, ln),
                                  ![c].outs = Append(@, r.w)]
    /\ opc' = IF r.panic THEN "panicked" ELSE opc

StreamRender(c, ln) ==
    /\ opc = "set"
    /\ outputs[c].t.kind = "template"
    /\ Len(outputs[c].lines) < MaxStreamLines
    /\ StreamRendered(c, ln, renderWith(outputs[c].t, invPlaceholders, ln))
    /\ UNCHANGED <<tvars, uvars, svars, pvars, wvars, lvars, inv, rotator, cmd, sig>>

NextOutputs ==
    \/ setOutputs
    \/ \E c \in Streams, ln \in StreamLines : StreamRender(c, ln)

SpecOutputs == InitOutputs /\ [][NextOutputs]_vars

\* What template t writes for the lines when it is the only template over a
\* registry of its own.
RECURSIVE Alone(_, _, _)
RECURSIVE AloneRest(_, _, _)
Alone(t, ps, lines) ==
    IF lines = <<>> THEN <<>>
    ELSE AloneRest(t, renderWith(t, ps, Head(lines)), Tail(lines))

AloneRest(t, r, lines) == <<r.w>> \o Alone(t, r.ps, lines)

\* C17: the stdout and the stderr template share no mutable state: what a
\* stream's template writes for its lines is what it would write over a
\* registry of its own, whatever the other stream has rendered.
C17_StreamsShareNoState ==
    opc = "set" =>
        \A c \in Streams :
            outputs[c].t.kind = "template" =>
                outputs[c].outs = Alone(outputs[c].t, defaultPlaceholders, outputs[c].lines)

(***************************************************************************)
(* render into a writer that can fail: a Write that returns an error has   *)
(* taken the first k bytes of what it was given.                           *)
(***************************************************************************)
MaxWritten == 2    \* bytes a failing Write takes before its error

errWrite == <<"w", "r", "i", "t", "e">>

\* renderElem writes s unless the element is a nested placeholder whose
\* result is empty.
writes(elem, s) == elem.type # "nested" \/ Len(s) > 0

\* The bytes the writer holds after a Write of s that took k bytes.
written_retracts(w, s, k) == SubSeq(s, 1, k)

written(w, s, k) == w \o SubSeq(s, 1, k)

\* renderElem has returned r and the write of it fails after k bytes.
WriteFailed(r, k) ==
    /\ ~r.st.panic
    /\ writes(tres.elems[idx], r.w)
    /\ k <= Len(r.w)
    /\ placeholders' = r.st.ps
    /\ calls' = r.st.calls
    /\ applied' = r.st.applied
    /\ makerRuns' = r.st.makerRuns
    /\ out' = written(out, r.w, k)
    /\ elemOut' = Append(elemOut, SubSeq(r.w, 1, k))
    /\ cache' = dropCache(r.st.cache)
    /\ rerr' = [kind |-> "error", err |-> errWrite, n |-> Len(out) + k,
                render |-> renders + 1]

\* One turn of render's loop in which the element's write fails after k
\* bytes: renderElem returns the count and the error, render adds the count,
\* returns, and its deferred dropCache runs.
RenderElemFails(k) ==
    /\ pc = "rendering"
    /\ idx <= Len(tres.elems)
    /\ WriteFailed(renderElem([ps |-> placeholders, cache |-> cache,
                               calls |-> calls, applied |-> applied,
                               makerRuns |-> makerRuns, panic |-> FALSE],
                              line, tres.elems[idx]), k)
    /\ renders' = renders + 1
    /\ pc' = "idle"
    /\ UNCHANGED <<text, tres, line, idx, uvars, svars, pvars, ovars, lvars, inv, rotator, cmd, sig>>

NextWrite ==
    \/ Next
    \/ \E k \in 0..MaxWritten : RenderElemFails(k)

SpecWrite == Init /\ [][NextWrite]_vars

\* C18: when the write of an element fails, render returns at that element
\* with the error and the number of bytes written so far: what had been
\* written stays, the bytes the failing write took follow it, and nothing of
\* a later element is written.
C18_WriteErrorStopsRender ==
    [][(pc = "rendering" /\ rerr' # rerr) =>
          /\ pc' = "idle"
          /\ rerr'.kind = "error"
          /\ rerr'.err = errWrite
          /\ rerr'.n = Len(out')
          /\ idx' = idx
          /\ IsPrefix(out, out')
          /\ Len(elemOut') = idx
          /\ out' = Concat(elemOut')
          /\ \A j \in 1..(idx - 1) : elemOut'[j] = elemOut[j]]_vars

\* a'{text}' a with the line a: the write of {text} fails when a' is out,
\* taking nothing.
C18_Witness ==
    /\ pc = "idle"
    /\ rerr.kind = "error"
    /\ rerr.render = renders
    /\ idx = 2
    /\ Len(tres.elems) > 2
    /\ out = elemOut[1]
    /\ out # <<>>
    /\ rerr.n = Len(out)

\* C19: whenever no render call is in progress the cycle cache is empty,
\* whether the last call returned normally, with a write error or by a
\* panic.
C19_CacheEmptyBetweenRenders == pc # "rendering" => cache = {}

\* A render call that had cached a cyclic placeholder's result has returned
\* with a write error.
C19_Witness ==
    /\ pc = "idle"
    /\ rerr.kind = "error"
    /\ rerr.render = renders
    /\ \E k \in 1..Len(applied) : applied[k].how = "cyclic"
    /\ cache = {}

(***************************************************************************)
(* linewiseWriter over a downstream writer whose Write can fail.           *)
(***************************************************************************)
MaxChunkLen == 3    \* bytes of one Write to the linewiseWriter

MaxWrites == 3      \* Write and Close calls per behaviour

NL == "\n"

Chunks == SeqsUpTo({"a", NL}, MaxChunkLen)

\* bytes.IndexByte, counted from 1; 0 for the -1 of Go.
RECURSIVE IndexFrom(_, _, _)
IndexFrom(p, b, i) ==
    IF i > Len(p) THEN 0 ELSE IF p[i] = b THEN i ELSE IndexFrom(p, b, i + 1)

IndexByte(p, b) == IndexFrom(p, b, 1)

\* w.buf = append(w.buf, p[:idx+1]...)
appendLine_dropsBuffer(buf, p, nl) == SubSeq(p, 1, nl)

appendLine(buf, p, nl) == buf \o SubSeq(p, 1, nl)

\* linewiseWriter.Write's loop.  failAt counts down to the downstream Write
\* that fails; none fails when it is 0.
RECURSIVE linewiseLoop(_, _, _, _, _)
linewiseLoop(buf, p, down, n, failAt) ==
    LET nl == IndexByte(p, NL) IN
    IF nl = 0
    THEN [buf |-> buf \o p, down |-> down, n |-> n + Len(p), err |-> FALSE]
    ELSE LET buf1 == appendLine(buf, p, nl)
         IN  IF failAt = 1
             THEN [buf |-> buf1, down |-> down, n |-> n, err |-> TRUE]
             ELSE linewiseLoop(<<>>, SubSeq(p, nl + 1, Len(p)),
                               Append(down, buf1), n + nl,
                               IF failAt = 0 THEN 0 ELSE failAt - 1)

linewiseWrite(buf, p, down, failAt) == linewiseLoop(buf, p, down, 0, failAt)

InitLinewise ==
    /\ TemplateOff
    /\ UsageOff
    /\ lbuf = <<>>
    /\ ldown = <<>>
    /\ lin = <<>>
    /\ lret = noResult
    /\ lerr = FALSE
    /\ OthersOffExcept("linewise")

Calls == IF lret.kind = "none" THEN 0 ELSE lret.call

\* w.Write(p)
LinewiseWrite(p, failAt) ==
    /\ Calls < MaxWrites
    /\ LET r == linewiseWrite(lbuf, p, ldown, failAt)
       IN  /\ lbuf' = r.buf
           /\ ldown' = r.down
           /\ lret' = [kind |-> "Write", p |-> p, n |-> r.n, err |-> r.err,
                       call |-> Calls + 1]
           /\ lerr' = (lerr \/ r.err)
    /\ lin' = lin \o p
    /\ UNCHANGED <<tvars, uvars, svars, pvars, ovars, wvars, inv, rotator, cmd, sig>>

\* w.Close(): what is buffered goes downstream with a newline appended.
LinewiseClose(fails) ==
    /\ Calls < MaxWrites
    /\ IF Len(lbuf) > 0
       THEN /\ ldown' = IF fails THEN ldown ELSE Append(ldown, lbuf \o <<NL>>)
            /\ lin' = lin \o <<NL>>
            /\ lerr' = (lerr \/ fails)
            /\ lret' = [kind |-> "Close", p |-> <<>>, n |-> 0, err |-> fails,
                        call |-> Calls + 1]
       ELSE /\ lret' = [kind |-> "Close", p |-> <<>>, n |-> 0, err |-> FALSE,
                        call |-> Calls + 1]
            /\ UNCHANGED <<ldown, lin, lerr>>
    /\ lbuf' = <<>>
    /\ UNCHANGED <<tvars, uvars, svars, pvars, ovars, wvars, inv, rotator, cmd, sig>>

NextLinewise ==
    \/ \E p \in Chunks, failAt \in 0..MaxChunkLen : LinewiseWrite(p, failAt)
    \/ \E fails \in BOOLEAN : LinewiseClose(fails)

SpecLinewise == InitLinewise /\ [][NextLinewise]_vars

\* The last newline of s, 0 when it has none.
RECURSIVE LastNewline(_, _)
LastNewline(s, i) == IF i = 0 THEN 0 ELSE IF s[i] = NL THEN i ELSE LastNewline(s, i - 1)

Newlines(s) == Cardinality({i \in 1..Len(s) : s[i] = NL})

\* C20: as long as no downstream Write has failed, the downstream writer has
\* received the input up to and including its last newline, in one Write per
\* line, each ending in a newline and holding no other; the rest of the
\* input is in the buffer, Close sends it with one newline appended, and
\* Write returns the length of what it was given.
C20_WholeLinesOnly ==
    ~lerr =>
        LET last == LastNewline(lin, Len(lin)) IN
        /\ Concat(ldown) = SubSeq(lin, 1, last)
        /\ Len(ldown) = Newlines(lin)
        /\ \A i \in 1..Len(ldown) :
              /\ ldown[i] # <<>>
              /\ ldown[i][Len(ldown[i])] = NL
              /\ Newlines(ldown[i]) = 1
        /\ lbuf = SubSeq(lin, last + 1, Len(lin))
        /\ lret.kind = "Write" => lret.n = Len(lret.p) /\ ~lret.err
        /\ lret.kind = "Close" => lbuf = <<>>

\* a, then a<NL>a: the buffered a goes downstream with the first line, the
\* second a waits.
C20_Witness ==
    /\ ~lerr
    /\ lret.kind = "Write"
    /\ lret.p = <<"a", NL, "a">>
    /\ lin = <<"a", "a", NL, "a">>
    /\ ldown = << <<"a", "a", NL>> >>
    /\ lbuf = <<"a">>

(***************************************************************************)
(* Templates whose cyclic placeholders meet in the cache: the maker of the *)
(* test registry bound to a second name, cyclic2, as well.                 *)
(***************************************************************************)
\* Two names with one concatenation of name and arguments.
T_cyclicNames == <<"{", "c", "y", "c", "l", "i", "c", " ", "2", "0", "}", "{", "c", "y", "c", "l", "i", "c", "2", " ", "0", "}">>

\* Two names, two concatenations.
T_cyclicApart == <<"{", "c", "y", "c", "l", "i", "c", " ", "2", "}", "{", "c", "y", "c", "l", "i", "c", "2", " ", "1", "}">>

MemoSources == {T_cyclic, T_cyclicKeys, T_cyclicNames, T_cyclicApart}

InitMemo == TemplateInit(MemoSources) /\ UsageOff /\ OthersOff

SpecMemo == InitMemo /\ [][Next]_vars

\* C23: the key of the cache is the name followed by the argument words with
\* nothing between them: of two calls of one render that go through the
\* cache and whose keys are equal, whatever their names and argument lists,
\* the second returns what the first returned and no function runs for it.
C23_MemoKeyIsConcatenation ==
    \A i, j \in 1..Len(applied) :
        (/\ i < j
         /\ ViaCache(applied[i])
         /\ ViaCache(applied[j])
         /\ applied[i].name \o Concat(applied[i].args)
                = applied[j].name \o Concat(applied[j].args))
            => /\ applied[j].how = "cached"
               /\ applied[j].s = applied[i].s
               /\ Cardinality({k \in 1..Len(calls) :
                      /\ calls[k].kind = "cyclic"
                      /\ calls[k].name \o Concat(calls[k].args)
                             = applied[i].name \o Concat(applied[i].args)}) = 1

\* {cyclic 20}{cyclic2 0}: cyclic2 is given what cyclic cached for cyclic20.
C23_Witness ==
    /\ Done
    /\ text = T_cyclicNames
    /\ Len(applied) = 2
    /\ applied[1].name = N_cyclic
    /\ applied[1].how = "cyclic"
    /\ applied[2].name = N_cyclic2
    /\ applied[2].args = << <<"0">> >>
    /\ applied[2].how = "cached"
    /\ applied[2].s = <<"2", "0">>
    /\ out = <<"2", "0", "2", "0">>

\* The specs in front of the last one that fail, and the errors of the list
\* but for the last spec's.
EarlierFailures(specs, args) ==
    Cardinality({i \in 1..(Len(specs) - 1) : Outcome(specs, args, i).err # "nil"})

\* C24: an Optional that is the last spec of the list takes the tokens its
\* inner spec matches; when the inner spec fails, the failure is dropped if no
\* token is left for it and reported, with the first of the tokens left,
\* otherwise.
C24_LastOptional ==
    (upc = "checked" /\ uspecs # <<>> /\ uspecs[Len(uspecs)].k = "opt") =>
        LET n == Len(uspecs)
            before == ArgsBefore(uspecs, uargs, n)
            inner == specCheck(uspecs[n].sub[1], before)
            errs == ures.r.errs
            earlier == EarlierFailures(uspecs, uargs)
        IN  IF inner.err = "nil"
            THEN /\ ures.r.args = inner.args
                 /\ Len(errs) = earlier
            ELSE /\ ures.r.args = before
                 /\ IF before = <<>> THEN Len(errs) = earlier
                    ELSE /\ Len(errs) = earlier + 1
                         /\ errs[Len(errs)] = [spec |-> specString(uspecs[n]),
                                               arg |-> before[1],
                                               cause |-> inner.err]

\* [a|b] against d: not matched; the same spec takes the a of the token
\* list a, and is content with no token at all.
C24_Witness ==
    /\ upc = "checked"
    /\ uspecs = <<usageOpt(usageAlt(<<plainWord(A_), plainWord(B_)>>))>>
    /\ uargs = << <<"d">> >>
    /\ ures.r.errs = <<[spec |-> <<"[", "a", "|", "b", "]">>, arg |-> <<"d">>,
                        cause |-> errNotMatched]>>
    /\ usageSpecsCheck(uspecs, <<>>) = [args |-> <<>>, errs |-> <<>>]
    /\ usageSpecsCheck(uspecs, <<A_>>) = [args |-> <<>>, errs |-> <<>>]

\* The Repetitions of the i-th spec of a list: the spec itself, or the spec
\* inside its brackets.
EnumsAt(specs, i) ==
    {u \in {specs[i]} \cup (IF specs[i].k \in {"opt", "req"} THEN {specs[i].sub[1]} ELSE {}) :
        u.k = "enum"}

\* The inner spec applied until the tokens run out or it rejects one.
RECURSIVE Repeat(_, _)
Repeat(u, args) ==
    IF args = <<>> THEN [args |-> args, err |-> "nil"]
    ELSE IF specCheck(u, args).err # "nil" THEN specCheck(u, args)
    ELSE Repeat(u, specCheck(u, args).args)

\* A Repetition checked with tokens does what Repeat does; one that succeeds
\* leaves no token, and a Required spec after it in the list reports
\* NotSpecified.
RepetitionRuns(specs, args, i, u) ==
    LET before == ArgsBefore(specs, args, i)
        r == specCheck(u, before)
    IN  /\ before = <<>> => r = [args |-> <<>>, err |-> errNotSpecified]
        /\ before # <<>> => r = Repeat(u.sub[1], before)
        /\ r.err = "nil" => r.args = <<>>
        /\ (u = specs[i] /\ r.err = "nil") =>
              \A j \in (i + 1)..Len(specs) :
                  specs[j].k = "req" => Outcome(specs, args, j).err = errNotSpecified

\* C25: a Repetition fails with NotSpecified exactly when it is checked with
\* no token; otherwise it applies its inner spec until the tokens run out or
\* the inner spec rejects one; when it succeeds no token is left, and a
\* Required spec after it is never satisfied.
C25_RepetitionAsClaimed ==
    upc = "checked" =>
        \A i \in 1..Len(uspecs) : \A u \in EnumsAt(uspecs, i) :
            /\ RepetitionRuns(uspecs, uargs, i, u)
            /\ specCheck(u, ArgsBefore(uspecs, uargs, i)).err = errNotSpecified
                  <=> ArgsBefore(uspecs, uargs, i) = <<>>

\* C25, as the code has it: a Repetition checked with no token fails with
\* NotSpecified; checked with tokens it fails with the error of its inner
\* spec, which is NotSpecified as well when a plain word meets an empty
\* token; the rest as claimed.
C25_Repetition ==
    upc = "checked" =>
        \A i \in 1..Len(uspecs) : \A u \in EnumsAt(uspecs, i) :
            RepetitionRuns(uspecs, uargs, i, u)

\* a|b... <a> against a b: the Repetition takes both tokens and <a> finds
\* none.
C25_Witness ==
    /\ upc = "checked"
    /\ uspecs = <<usageEnum(usageAlt(<<plainWord(A_), plainWord(B_)>>)),
                  usageReq(argWord(A_))>>
    /\ uargs = <<A_, B_>>
    /\ specCheck(uspecs[1], uargs) = [args |-> <<>>, err |-> "nil"]
    /\ ures.r.errs = <<[spec |-> <<"<", "a", ">">>, arg |-> <<>>,
                        cause |-> errNotSpecified]>>

\* C26: tokens left when every spec of the list has been satisfied are no
\* error: check returns them with no usage error, an empty list accepts any
\* tokens, and placeholders.check, which looks at the error alone, lets a
\* function be called with more arguments than its usage names.
C26_LeftoverTokensAreNoError ==
    /\ upc = "checked" =>
          /\ (\A i \in 1..Len(uspecs) : Outcome(uspecs, uargs, i).err = "nil")
                => /\ ures.r.errs = <<>>
                   /\ ures.r.args = ArgsBefore(uspecs, uargs, Len(uspecs) + 1)
          /\ uspecs = <<>> => ures.r = [args |-> uargs, errs |-> <<>>]
    /\ check(defaultPlaceholders, N_env, <<<<"H">>, A_, B_>>) = <<>>

\* <a> against a b: b is left, and nothing is reported.
C26_Witness ==
    /\ upc = "checked"
    /\ uspecs = <<usageReq(argWord(A_))>>
    /\ uargs = <<A_, B_>>
    /\ ures.r = [args |-> <<B_>>, errs |-> <<>>]

(***************************************************************************)
(* Binding a value to a placeholder the registry holds as nil, between the *)
(* renders of a template that was parsed while it was nil.  The values     *)
(* bound are the decimal strings of BoundValues.                           *)
(***************************************************************************)
BoundValues == {7, 12}

NilNames == {N_name, N_pid}

\* A line-independent and a line-dependent template over the nil names.
T_pidText == <<"{", "p", "i", "d", "}", " ", "{", "t", "e", "x", "t", "}">>

BindSources == {T_unbound, T_pidText}

\* placeholders.constant(name, val), val the decimal string of n.
constant(ps, name, n) == set(ps, name, [kind |-> "func", fn |-> "constant", i |-> n])

\* inv.constant(name, val), called while no render is running.
Constant(name, n) ==
    /\ pc \in {"new", "idle"}
    /\ placeholders' = constant(placeholders, name, n)
    /\ UNCHANGED <<text, tres, cache, pc, line, idx, out, renders, calls,
                   applied, makerRuns, elemOut, uvars, xvars>>

InitBind == TemplateInit(BindSources) /\ UsageOff /\ OthersOff

NextBind ==
    \/ Next
    \/ \E name \in NilNames, n \in BoundValues : Constant(name, n)

SpecBind == InitBind /\ [][NextBind]_vars

\* What a template renders for a nil name: the value bound, or n/a.
Shown(name) ==
    IF placeholders[name].kind = "nil" THEN inlineError(name, <<"n", "/", "a">>)
    ELSE Itoa(placeholders[name].i)

\* C27: a template that names placeholders the registry holds as nil is
\* accepted by newTemplate; a render puts {name: n/a} for each of them while
\* it is nil and the value bound once constant has bound one; binding calls
\* no parse, the elements of the template stay as newTemplate made them.
C27_NilUntilBound ==
    /\ [](pc # "new" => tres.kind = "template")
    /\ [](pc = "rendering" =>
             \A k \in 1..Len(applied) :
                 applied[k].name \in NilNames =>
                     /\ applied[k].s = Shown(applied[k].name)
                     /\ elemOut[IF text = T_unbound THEN k ELSE 1] = applied[k].s)
    /\ [][pc # "new" => tres' = tres]_vars

\* {pid}{name} rendered once with both nil.
C27_WitnessNil ==
    /\ Done
    /\ text = T_unbound
    /\ renders = 1
    /\ placeholders[N_pid].kind = "nil"
    /\ out = <<"{", "p", "i", "d", ":", " ", "n", "/", "a", "}", "{", "n", "a", "m", "e", ":", " ", "n", "/", "a", "}">>

\* {pid}{name} rendered a second time after constant bound pid to 12.
C27_Witness ==
    /\ Done
    /\ text = T_unbound
    /\ renders = 2
    /\ placeholders[N_pid] = [kind |-> "func", fn |-> "constant", i |-> 12]
    /\ placeholders[N_name].kind = "nil"
    /\ out = <<"1", "2", "{", "n", "a", "m", "e", ":", " ", "n", "/", "a", "}">>

(***************************************************************************)
(* The fileRotator over the directory of its logfile.  A rotated logfile   *)
(* is known by the digits after "log."; rotator.dir maps them to the age   *)
(* of the file's content, a number that grows with recency.  The files a   *)
(* directory holds at construction are as recent as their names sort.      *)
(* Sizes are counted in units; the notice rotate writes takes NoticeLen.   *)
(***************************************************************************)
MaxCount == 3        \* the largest maxCount of a fileRotator

MaxRotatorWrites == 4  \* Write calls per fileRotator

NoticeLen == 2

MaxSizes == {2, 4}

WriteLens == {1, 2, 3}

\* Suffixes of the logfiles a directory may hold before the program runs.
InitialNames == {<<"0">>, <<"1">>, <<"2">>, <<"0", "1">>, <<"1", "0">>}

\* Byte order of two strings of digits.
RECURSIVE nameLess(_, _)
nameLess(a, b) ==
    IF a = <<>> THEN b # <<>>
    ELSE IF b = <<>> THEN FALSE
    ELSE IF a[1] = b[1] THEN nameLess(Tail(a), Tail(b))
    ELSE DigitVal(a[1]) < DigitVal(b[1])

\* fileRotator.files: ioutil.ReadDir sorts by filename.
RECURSIVE files(_)
files(names) ==
    IF names = {} THEN <<>>
    ELSE LET m == CHOOSE x \in names : \A y \in names \ {x} : nameLess(x, y)
         IN  <<m>> \o files(names \ {m})

\* countDigits of util.go
RECURSIVE countDigitsLoop(_)
countDigitsLoop(num) == IF num > 0 THEN 1 + countDigitsLoop(num \div 10) ELSE 0

countDigits(num) == countDigitsLoop(IF num = 0 THEN 1 ELSE IF num < 0 THEN -num ELSE num)

\* fileRotator.nthFileSuffix: fmt.Sprintf("%0*d", countDigits(maxCount-1), n)
RECURSIVE zeroPad(_, _)
zeroPad(s, width) == IF Len(s) >= width THEN s ELSE zeroPad(<<"0">> \o s, width)

nthFileSuffix(w, n) == zeroPad(Itoa(n), countDigits(w.maxCount - 1))

\* os.Rename of one rotated logfile onto another name: a file of that name
\* is replaced.
renameFile(w, old, new) ==
    [w EXCEPT !.dir = [f \in (DOMAIN w.dir \ {old}) \cup {new} |->
                           IF f = new THEN w.dir[old] ELSE w.dir[f]],
              !.gone = IF new \in DOMAIN w.dir THEN @ \cup {w.dir[new]} ELSE @]

\* os.Remove
removeFile(w, f) ==
    [w EXCEPT !.dir = [g \in DOMAIN w.dir \ {f} |-> w.dir[g]],
              !.gone = @ \cup {w.dir[f]},
              !.fileCount = @ - 1]

\* fileRotator.slice: the loop over fs[to:]
RECURSIVE sliceLoop(_, _)
sliceLoop(w, fs) ==
    IF fs = <<>> THEN w ELSE sliceLoop(removeFile(w, Head(fs)), Tail(fs))

slice(w, to) ==
    LET fs == files(DOMAIN w.dir)
        t == IF to < 0 THEN 0 ELSE IF to > Len(fs) THEN Len(fs) ELSE to
    IN  sliceLoop(w, SubSeq(fs, t + 1, Len(fs)))

\* fileRotator.reorder: the loop from the end of fs, i the Go index plus one.
RECURSIVE reorderLoop(_, _, _, _)
reorderLoop(w, fs, startAt, i) ==
    IF i < 1 THEN w
    ELSE LET old == fs[i]
             new == nthFileSuffix(w, startAt + i - 1)
         IN  reorderLoop(IF old # new THEN renameFile(w, old, new) ELSE w,
                         fs, startAt, i - 1)

reorder(w, startAt) ==
    LET fs == files(DOMAIN w.dir)
    IN  [reorderLoop(w, fs, startAt, Len(fs)) EXCEPT !.fileCount = Len(fs)]

shiftRight(w) == reorder(slice(w, w.fileCount), 1)

dropLast(w) == slice(w, w.fileCount - 1)

\* fileRotator.prependCurrent: the live file becomes <file>.0, the most
\* recent of the rotated files, and an empty live file is opened.
prependCurrent(w) ==
    LET s == shiftRight(w)
        zero == nthFileSuffix(w, 0)
        moved == [s EXCEPT !.dir = [f \in DOMAIN s.dir \cup {zero} |->
                                        IF f = zero THEN s.clock + 1 ELSE s.dir[f]],
                           !.gone = IF zero \in DOMAIN s.dir
                                    THEN @ \cup {s.dir[zero]} ELSE @,
                           !.clock = @ + 1,
                           !.size = 0,
                           !.last = "none"]
    IN  [moved EXCEPT !.fileCount = IF @ < w.maxCount THEN @ + 1 ELSE @]

\* fileRotator.rotate with maxCount > 0, and the notice its defer writes.
rotate(w) ==
    LET d == IF w.fileCount = w.maxCount THEN dropLast(w) ELSE w
        p == prependCurrent(d)
    IN  [p EXCEPT !.size = @ + NoticeLen, !.last = "notice"]

spaceLeft(w) == IF w.maxSize - w.size < 0 THEN 0 ELSE w.maxSize - w.size

\* fileRotator.Write of n bytes, the call numbered id.
rotatorWrite(w, n, id) ==
    LET r == IF n > spaceLeft(w) THEN rotate(w) ELSE w
    IN  [r EXCEPT !.size = @ + n, !.last = id, !.writes = id]

\* The ages of the files of a directory: the first of the sorted list is
\* the newest.
RECURSIVE agesOf(_, _)
agesOf(fs, k) ==
    IF fs = <<>> THEN <<>> ELSE <<k>> \o agesOf(Tail(fs), k - 1)

InitialDir(names) ==
    LET fs == files(names)
        ages == agesOf(fs, Len(fs))
    IN  [f \in names |-> ages[CHOOSE i \in 1..Len(fs) : fs[i] = f]]

InitRotator ==
    /\ TemplateOff
    /\ UsageOff
    /\ OthersOffExcept("rotator")
    /\ \E names \in SUBSET InitialNames, maxSize \in MaxSizes, maxCount \in 1..MaxCount :
           rotator = [pc |-> "dir", dir |-> InitialDir(names), fileCount |-> 0,
                      maxSize |-> maxSize, maxCount |-> maxCount, gone |-> {},
                      clock |-> Cardinality(names), size |-> 0, last |-> "none",
                      writes |-> 0]

\* newFileRotator(path, maxSize, maxCount), maxCount > 0
NewFileRotator ==
    /\ rotator.pc = "dir"
    /\ rotator' = [slice(reorder(rotator, 0), rotator.maxCount) EXCEPT !.pc = "open"]
    /\ UNCHANGED <<tvars, uvars, svars, pvars, ovars, wvars, lvars, inv, cmd, sig>>

\* fileRotator.Write(p), n the length of p
RotatorWrite(n) ==
    /\ rotator.pc = "open"
    /\ rotator.writes < MaxRotatorWrites
    /\ rotator' = rotatorWrite(rotator, n, rotator.writes + 1)
    /\ UNCHANGED <<tvars, uvars, svars, pvars, ovars, wvars, lvars, inv, cmd, sig>>

NextRotator ==
    \/ NewFileRotator
    \/ \E n \in WriteLens : RotatorWrite(n)

SpecRotator == InitRotator /\ [][NextRotator]_vars

\* The rotated logfiles carry the suffixes 0..k-1 for some k.
Contiguous(w) ==
    DOMAIN w.dir = {nthFileSuffix(w, i) : i \in 0..(Cardinality(DOMAIN w.dir) - 1)}

\* C21: once a fileRotator with a maximum count N > 0 is constructed, and
\* after each of its Writes, the rotated logfiles carry the suffixes 0..k-1
\* with k <= N, a smaller suffix holds more recent content, no file that is
\* gone was more recent than one that is kept, and the live file ends with
\* the most recent write.
C21_RotatedFilesInOrder ==
    rotator.pc = "open" =>
        /\ Contiguous(rotator)
        /\ Cardinality(DOMAIN rotator.dir) <= rotator.maxCount
        /\ \A i, j \in 0..(Cardinality(DOMAIN rotator.dir) - 1) :
               i < j => rotator.dir[nthFileSuffix(rotator, i)]
                            > rotator.dir[nthFileSuffix(rotator, j)]
        /\ \A f \in DOMAIN rotator.dir : \A g \in rotator.gone : g < rotator.dir[f]
        /\ rotator.writes > 0 => rotator.last = rotator.writes

(***************************************************************************)
(* invoke: the hooks of newInvocation that register cleanups, the writes   *)
(* of the invocation to its two streams, and inv.cleanup().  inv.cleanup   *)
(* is the tree of closures ensure builds.  The log is the writes the       *)
(* logfile has received; a write to it after its Close fails and is kept   *)
(* in late.                                                                *)
(***************************************************************************)
MaxInvokeWrites == 2    \* Writes of the invocation to its streams

T_textOnly == <<"{", "t", "e", "x", "t", "}">>

T_unclosed == <<"{", "t", "e", "x", "t">>

\* The templates of a stream: none, the line itself, one that does not parse.
InvokeSources == {<<>>, T_textOnly, T_unclosed}

InvokeChunks == {<<"a">>, <<"a", NL>>, <<"a", NL, "a">>}

Cleanups == {"stdout.Close", "stderr.Close", "log.Close"}

\* A func() error that is one of the registered closures.
cleanupCall(fn) == [op |-> "call", fn |-> fn]

\* inv.ensure that appends whatever prepend says.
ensure_appends(cleanup, prepend, fn) ==
    [op |-> "both", first |-> cleanup, last |-> fn]

\* inv.ensure(prepend, fn); inv.cleanup is never nil, newInvocation sets it.
ensure(cleanup, prepend, fn) ==
    IF prepend THEN [op |-> "both", first |-> fn, last |-> cleanup]
    ELSE [op |-> "both", first |-> cleanup, last |-> fn]

\* templateWriter.Write(p) into io.MultiWriter(stream, inv.log): the line
\* without its newline is rendered, a newline appended.
sinkWrite(w, s, b) ==
    IF ~w.flagsFile THEN [w EXCEPT !.out[s] = Append(@, b)]
    ELSE IF w.logOpen
    THEN [w EXCEPT !.out[s] = Append(@, b), !.log = Append(@, b)]
    ELSE [w EXCEPT !.out[s] = Append(@, b), !.late = Append(@, b)]

streamWrite(w, s, p) ==
    sinkWrite(w, s, renderWith(w.tmpl[s], defaultPlaceholders,
                               SubSeq(p, 1, Len(p) - 1)).w \o <<NL>>)

\* linewiseWriter.Write's loop over the lines of p.
RECURSIVE streamLines(_, _, _)
streamLines(w, s, down) ==
    IF down = <<>> THEN w ELSE streamLines(streamWrite(w, s, Head(down)), s, Tail(down))

\* lw.Close of stream s: what is buffered is written with a newline.  The
\* Write fails when the closure is one of w.failing, and when the logfile
\* is closed.
closed(w1, s, err) ==
    [w1 EXCEPT !.bufs[s] = <<>>, !.ran = Append(@, [fn |-> s \o ".Close", err |-> err])]

closeStream(w, s) ==
    IF Len(w.bufs[s]) = 0 THEN closed(w, s, "nil")
    ELSE IF (s \o ".Close") \in w.failing THEN closed(w, s, s \o ".Close")
    ELSE closed(streamWrite(w, s, w.bufs[s] \o <<NL>>), s,
                IF w.flagsFile /\ ~w.logOpen THEN s \o ".Close" ELSE "nil")

\* closeWriter.Close of inv.log: the notice, then the Close of the file.
closeLog(w) ==
    [w EXCEPT !.log = Append(@, <<"finished">>),
              !.logOpen = FALSE,
              !.ran = Append(@, [fn |-> "log.Close",
                                 err |-> IF "log.Close" \in w.failing
                                         THEN "log.Close" ELSE "nil"])]

\* Calling the closure c: first(), then last(), the first error kept.
RECURSIVE runCleanup(_, _)
RECURSIVE runLast(_, _)
\* What the closure returned is the error of the call that ran last.
returnedBy(w1) == [w1 EXCEPT !.err = w1.ran[Len(w1.ran)].err]

\* err == nil: err = err_
firstError(err, w2) == [w2 EXCEPT !.err = IF err = "nil" THEN @ ELSE err]

runCleanup(w, c) ==
    IF c.op = "call"
    THEN returnedBy(CASE c.fn = "nop" ->
                             [w EXCEPT !.ran = Append(@, [fn |-> "nop", err |-> "nil"])]
                      [] c.fn = "log.Close" -> closeLog(w)
                      [] c.fn = "stdout.Close" -> closeStream(w, "stdout")
                      [] c.fn = "stderr.Close" -> closeStream(w, "stderr"))
    ELSE runLast(runCleanup(w, c.first), c.last)

\* last() after first() has left w1.
runLast(w1, c) == firstError(w1.err, runCleanup(w1, c))

InitInvoke ==
    /\ TemplateOff
    /\ UsageOff
    /\ OthersOffExcept("cleanup")
    /\ \E file \in BOOLEAN, failing \in SUBSET Cleanups,
          so \in InvokeSources, se \in InvokeSources :
           inv = [stage |-> "setLog", flagsFile |-> file, failing |-> failing,
                  templates |-> [s \in Streams |-> IF s = "stdout" THEN so ELSE se],
                  tmpl |-> [s \in Streams |-> noResult],
                  cleanup |-> cleanupCall("nop"), registered |-> <<>>,
                  ran |-> <<>>, err |-> "nil", logOpen |-> FALSE, log |-> <<>>,
                  late |-> <<>>, bufs |-> [s \in Streams |-> <<>>],
                  out |-> [s \in Streams |-> <<>>],
                  in |-> [s \in Streams |-> <<>>], writes |-> 0]

\* The hook setLog: with -f the logfile is opened, its Close is registered
\* last and the started notice is written.
SetLog ==
    /\ inv.stage = "setLog"
    /\ inv' = IF inv.flagsFile
              THEN [inv EXCEPT !.stage = "setOutputs",
                               !.logOpen = TRUE,
                               !.log = <<<<"started">>>>,
                               !.cleanup = ensure(@, FALSE, cleanupCall("log.Close")),
                               !.registered = Append(@, "log.Close")]
              ELSE [inv EXCEPT !.stage = "setOutputs"]
    /\ UNCHANGED <<tvars, uvars, svars, pvars, ovars, wvars, lvars, rotator, cmd, sig>>

\* One turn of setOutputs' loop over stdout and stderr.
RECURSIVE setOutputsLoop(_, _)
RECURSIVE setOutput(_, _, _)
setOutputsLoop(w, streams) ==
    IF streams = <<>> THEN [w EXCEPT !.stage = "invoke"]
    ELSE IF w.templates[Head(streams)] = <<>> THEN setOutputsLoop(w, Tail(streams))
    ELSE setOutput(w, streams,
                   newTemplate(w.templates[Head(streams)], DOMAIN defaultPlaceholders))

\* The turn for a stream whose template newTemplate returned as t.
setOutput(w, streams, t) ==
    IF t.kind # "template" THEN [w EXCEPT !.stage = "failed"]
    ELSE setOutputsLoop(
             [w EXCEPT !.tmpl[Head(streams)] = t,
                       !.cleanup = ensure(@, TRUE, cleanupCall(Head(streams) \o ".Close")),
                       !.registered = Append(@, Head(streams) \o ".Close")],
             Tail(streams))

\* The hook setOutputs.  An error of it is returned by newInvocation, and
\* invoke returns it without calling inv.cleanup.
SetOutputs ==
    /\ inv.stage = "setOutputs"
    /\ inv' = IF inv.templates["stdout"] = <<>> /\ inv.templates["stderr"] = <<>>
              THEN [inv EXCEPT !.stage = "failed"]
              ELSE setOutputsLoop(inv, <<"stdout", "stderr">>)
    /\ UNCHANGED <<tvars, uvars, svars, pvars, ovars, wvars, lvars, rotator, cmd, sig>>

\* The Write of p to the linewiseWriter of s as r ended it: the lines it
\* passed on are rendered and written.
lineWritten(s, p, r) ==
    [streamLines(inv, s, r.down) EXCEPT !.bufs[s] = r.buf, !.in[s] = @ \o p,
                                        !.writes = @ + 1]

\* inv.invoke copies p to the stream s: a linewiseWriter over a
\* templateWriter, or ioutil.Discard when the stream has no template.
InvokeWrite(s, p) ==
    /\ inv.stage = "invoke"
    /\ inv.writes < MaxInvokeWrites
    /\ inv' = IF inv.templates[s] = <<>>
              THEN [inv EXCEPT !.writes = @ + 1]
              ELSE lineWritten(s, p, linewiseWrite(inv.bufs[s], p, <<>>, 0))
    /\ UNCHANGED <<tvars, uvars, svars, pvars, ovars, wvars, lvars, rotator, cmd, sig>>

\* inv.invoke returns and invoke calls inv.cleanup().
Cleanup ==
    /\ inv.stage = "invoke"
    /\ inv' = [runCleanup(inv, inv.cleanup) EXCEPT !.stage = "done"]
    /\ UNCHANGED <<tvars, uvars, svars, pvars, ovars, wvars, lvars, rotator, cmd, sig>>

NextInvoke ==
    \/ SetLog
    \/ SetOutputs
    \/ \E s \in Streams, p \in InvokeChunks : InvokeWrite(s, p)
    \/ Cleanup

SpecInvoke == InitInvoke /\ [][NextInvoke]_vars

\* How often the closure fn was run, and the place of its run.
RanCount(fn) == Cardinality({k \in 1..Len(inv.ran) : inv.ran[k].fn = fn})

RanAt(fn) == CHOOSE k \in 1..Len(inv.ran) : inv.ran[k].fn = fn

\* What of the input of stream s follows its last newline.
FinalLine(s) ==
    SubSeq(inv.in[s], LastNewline(inv.in[s], Len(inv.in[s])) + 1, Len(inv.in[s]))

\* C22: when inv.cleanup() has run, every registered closure has run exactly
\* once, whichever of them failed; the error returned is that of the first
\* closure in running order that failed; the line writers' Close ran before
\* the logfile's Close; so a final line without newline, whose write did
\* not fail, is in the logfile in front of the finished notice, and no
\* write came to the closed logfile.
C22_CleanupRunsAllInOrder ==
    inv.stage = "done" =>
        /\ \A k \in 1..Len(inv.registered) : RanCount(inv.registered[k]) = 1
        /\ Len(inv.ran) = Len(inv.registered) + 1
        /\ \/ /\ inv.err = "nil"
              /\ \A k \in 1..Len(inv.ran) : inv.ran[k].err = "nil"
           \/ \E k \in 1..Len(inv.ran) :
                  /\ inv.ran[k].err = inv.err
                  /\ inv.err # "nil"
                  /\ \A j \in 1..(k - 1) : inv.ran[j].err = "nil"
        /\ inv.flagsFile =>
               /\ inv.late = <<>>
               /\ inv.log[Len(inv.log)] = <<"finished">>
               /\ \A s \in Streams :
                      (inv.templates[s] # <<>>) =>
                          /\ RanAt(s \o ".Close") < RanAt("log.Close")
                          /\ (FinalLine(s) # <<>> /\ (s \o ".Close") \notin inv.failing)
                                 => \E i \in 1..(Len(inv.log) - 1) :
                                        inv.log[i] = FinalLine(s) \o <<NL>>

\* -f log, stdout given "a" with no newline: the a line is in the log in
\* front of the finished notice although log.Close was registered first,
\* and stderr's Close, which failed first, gives the error.
C22_Witness ==
    /\ inv.stage = "done"
    /\ inv.flagsFile
    /\ inv.registered = <<"log.Close", "stdout.Close", "stderr.Close">>
    /\ inv.in = [s \in Streams |-> <<"a">>]
    /\ inv.failing = {"stderr.Close", "log.Close"}
    /\ inv.err = "stderr.Close"
    /\ inv.log = <<<<"started">>, <<"a", NL>>, <<"finished">>>>
    /\ [k \in 1..4 |-> inv.ran[k].fn] = <<"stderr.Close", "stdout.Close", "nop", "log.Close">>

(***************************************************************************)
(* doRun: the main goroutine starts the command, binds pid and waits; the  *)
(* two goroutines that copy the child's stdout and stderr call Write on    *)
(* the writers of newInterlockedWriterPair as the child's output arrives.  *)
(* A Write is Lock, the render of the line, the write of the rendered line *)
(* to the shared sink, the load and the store of *w.n += n, Unlock.  Both  *)
(* templates are {pid} {text} over the registry of the invocation.  A read *)
(* of the registry that overlaps doRun's write to it is a data race: the   *)
(* render sees the entry as it was or as it is written, or the runtime     *)
(* ends the program.                                                       *)
(***************************************************************************)
MaxChildLines == 2    \* lines the child writes to each of its streams

ChildPid == 7

ChildLines == {<<"a", NL>>, <<"b", "b", NL>>}

\* sync.Mutex.Lock that does not wait.
mutexFree_always(locked) == TRUE

\* sync.Mutex.Lock returns when the mutex is not held.
mutexFree(locked) == ~locked

\* The other stream.
Other(s) == IF s = "stdout" THEN "stderr" ELSE "stdout"

InitRun ==
    /\ TemplateOff
    /\ UsageOff
    /\ OthersOffExcept("run")
    /\ cmd = [stage |-> "start", ps |-> defaultPlaceholders,
              tmpl |-> newTemplate(T_pidText, DOMAIN defaultPlaceholders),
              locked |-> FALSE,
              w |-> [s \in Streams |-> [pc |-> "idle", p |-> <<>>, n |-> 0,
                                        calls |-> 0, raced |-> FALSE]],
              bytes |-> 0, counted |-> 0, sink |-> <<>>, lines |-> <<>>,
              raced |-> FALSE]

\* cmd.Start(): the child runs and the two copying goroutines with it.
Start ==
    /\ cmd.stage = "start"
    /\ cmd' = [cmd EXCEPT !.stage = "bind"]
    /\ UNCHANGED <<tvars, uvars, svars, pvars, ovars, wvars, lvars, inv, rotator, sig>>

\* inv.constant("pid", strconv.Itoa(cmd.Process.Pid)): a write to the map
\* with no lock held.
BindPid ==
    /\ cmd.stage = "bind"
    /\ cmd' = [cmd EXCEPT
                  !.stage = "wait",
                  !.ps = constant(@, N_pid, ChildPid),
                  !.raced = @ \/ \E s \in Streams : cmd.w[s].pc = "rendering",
                  !.w = [s \in Streams |->
                            [cmd.w[s] EXCEPT !.raced = @ \/ cmd.w[s].pc = "rendering"]]]
    /\ UNCHANGED <<tvars, uvars, svars, pvars, ovars, wvars, lvars, inv, rotator, sig>>

\* cmd.Wait() returns: the child has exited and the copying is done.
Wait ==
    /\ cmd.stage = "wait"
    /\ \A s \in Streams : cmd.w[s].pc = "idle"
    /\ cmd' = [cmd EXCEPT !.stage = "done"]
    /\ UNCHANGED <<tvars, uvars, svars, pvars, ovars, wvars, lvars, inv, rotator, sig>>

\* interlockedWriter.Write(p): w.Lock()
Lock(s, p) ==
    /\ cmd.stage \in {"bind", "wait"}
    /\ cmd.w[s].pc = "idle"
    /\ cmd.w[s].calls < MaxChildLines
    /\ mutexFree(cmd.locked)
    /\ cmd' = [cmd EXCEPT !.locked = TRUE,
                          !.w[s] = [@ EXCEPT !.pc = "render", !.p = p,
                                             !.calls = @ + 1]]
    /\ UNCHANGED <<tvars, uvars, svars, pvars, ovars, wvars, lvars, inv, rotator, sig>>

\* templateWriter.Write calls template.render, which reads the registry.
RunRenderBegin(s) ==
    /\ cmd.stage \in {"bind", "wait"}
    /\ cmd.w[s].pc = "render"
    /\ cmd' = [cmd EXCEPT !.w[s].pc = "rendering"]
    /\ UNCHANGED <<tvars, uvars, svars, pvars, ovars, wvars, lvars, inv, rotator, sig>>

\* The render call as r ended it; the Write of the line to the sink begins.
RunRendered(r, s) ==
    cmd' = [cmd EXCEPT !.w[s] = [@ EXCEPT !.pc = "sink", !.raced = FALSE],
                       !.lines = Append(@, r.w),
                       !.sink = Append(@, <<s, "begin">>)]

\* render returns.  After a race it has read pid as nil or as bound, or the
\* runtime has detected the concurrent map access.
RunRenderEnd(s) ==
    /\ cmd.stage \in {"bind", "wait"}
    /\ cmd.w[s].pc = "rendering"
    /\ \/ \E ps \in IF cmd.w[s].raced THEN {cmd.ps, defaultPlaceholders} ELSE {cmd.ps} :
              RunRendered(renderWith(cmd.tmpl, ps,
                                     SubSeq(cmd.w[s].p, 1, Len(cmd.w[s].p) - 1)), s)
       \/ /\ cmd.w[s].raced
          /\ cmd' = [cmd EXCEPT !.stage = "fatal"]
    /\ UNCHANGED <<tvars, uvars, svars, pvars, ovars, wvars, lvars, inv, rotator, sig>>

\* The Write of the rendered line to the sink returns.
SinkEnd(s) ==
    /\ cmd.stage \in {"bind", "wait"}
    /\ cmd.w[s].pc = "sink"
    /\ cmd' = [cmd EXCEPT !.w[s].pc = "load", !.sink = Append(@, <<s, "end">>)]
    /\ UNCHANGED <<tvars, uvars, svars, pvars, ovars, wvars, lvars, inv, rotator, sig>>

\* byteCounter.Write: *w.n += uint64(n), the load
Load(s) ==
    /\ cmd.stage \in {"bind", "wait"}
    /\ cmd.w[s].pc = "load"
    /\ cmd' = [cmd EXCEPT !.w[s] = [@ EXCEPT !.pc = "store", !.n = cmd.bytes]]
    /\ UNCHANGED <<tvars, uvars, svars, pvars, ovars, wvars, lvars, inv, rotator, sig>>

\* byteCounter.Write: *w.n += uint64(n), the store.  The 64 bits of the
\* counter do not wrap within MaxChildLines lines.
Store(s) ==
    /\ cmd.stage \in {"bind", "wait"}
    /\ cmd.w[s].pc = "store"
    /\ cmd' = [cmd EXCEPT !.w[s].pc = "unlock",
                          !.bytes = cmd.w[s].n + Len(cmd.w[s].p),
                          !.counted = @ + Len(cmd.w[s].p)]
    /\ UNCHANGED <<tvars, uvars, svars, pvars, ovars, wvars, lvars, inv, rotator, sig>>

\* interlockedWriter.Write: the deferred w.Unlock()
Unlock(s) ==
    /\ cmd.stage \in {"bind", "wait"}
    /\ cmd.w[s].pc = "unlock"
    /\ cmd' = [cmd EXCEPT !.w[s].pc = "idle", !.locked = FALSE]
    /\ UNCHANGED <<tvars, uvars, svars, pvars, ovars, wvars, lvars, inv, rotator, sig>>

NextRun ==
    \/ Start
    \/ BindPid
    \/ Wait
    \/ \E s \in Streams :
           \/ \E p \in ChildLines : Lock(s, p)
           \/ RunRenderBegin(s)
           \/ RunRenderEnd(s)
           \/ SinkEnd(s)
           \/ Load(s)
           \/ Store(s)
           \/ Unlock(s)

SpecRun == InitRun /\ [][NextRun]_vars

\* C28: under every interleaving at most one of the two writers is inside
\* its Write, so at most one render runs at a time; on the shared sink the
\* write of a line ends before the next begins; and the shared counter is
\* the sum of the lengths counted, no update is lost.
C28_WritersExclude ==
    /\ \A s \in Streams : cmd.w[s].pc # "idle" => cmd.w[Other(s)].pc = "idle"
    /\ \A i \in 1..Len(cmd.sink) :
           IF i % 2 = 1 THEN cmd.sink[i][2] = "begin"
           ELSE cmd.sink[i] = <<cmd.sink[i - 1][1], "end">>
    /\ cmd.bytes = cmd.counted

\* Both streams have written their lines and doRun has returned.
C28_Witness ==
    /\ cmd.stage = "done"
    /\ \A s \in Streams : cmd.w[s].calls = MaxChildLines
    /\ Len(cmd.sink) = 4 * MaxChildLines
    /\ cmd.sink[1][1] # cmd.sink[3][1]
    /\ cmd.bytes >= 4

\* C29: no line is rendered with pid unbound, and doRun's binding of pid
\* never overlaps a render.
C29_PidBoundBeforeRender ==
    /\ ~cmd.raced
    /\ cmd.stage # "fatal"
    /\ \A i \in 1..Len(cmd.lines) :
           SubSeq(cmd.lines[i], 1, 10) # inlineError(N_pid, <<"n", "/", "a">>)

(***************************************************************************)
(* doRun's signal handler.  sig.now is the clock in seconds; sig.ch is the *)
(* channel sigch of capacity 1, which drops a signal that finds it full;   *)
(* sig.sent is what the handler passed to cmd.Process.Signal, in order.    *)
(* kill is the timer: sig.deadline is when it expires (NoDeadline for the  *)
(* math.MaxInt64 it is made with) and sig.fired that kill.C holds a value. *)
(* The child exits when it will, and after a SIGKILL; doRun closes wait    *)
(* once cmd.Wait has returned.                                             *)
(***************************************************************************)
MaxTime == 6       \* seconds of the clock

MaxSignals == 3    \* signals the process receives

interruptWindow == 2

killDelay == 3

NoDeadline == MaxTime + killDelay + 1

Signals == {"SIGINT", "SIGQUIT", "SIGTERM"}

\* The handler's case killing, that never holds.
ignoring_never(killing) == FALSE

\* case killing: ignore any signal until the subprocess is killed.
ignoring(killing) == killing

\* notify(sig): SIGTERM and SIGQUIT reset the timer and set killing.
notify(h, s) ==
    IF s \in {"SIGTERM", "SIGQUIT"}
    THEN [h EXCEPT !.deadline = h.now + killDelay, !.killing = TRUE]
    ELSE h

\* cmd.Process.Signal(s)
forward(h, s) == [h EXCEPT !.sent = Append(@, s)]

InitSignals ==
    /\ TemplateOff
    /\ UsageOff
    /\ OthersOffExcept("signals")
    /\ sig = [now |-> 0, ch |-> <<>>, received |-> 0, lastSig |-> "none",
              lastSigAt |-> 0, killing |-> FALSE, deadline |-> NoDeadline,
              fired |-> FALSE, firedAlive |-> FALSE, sent |-> <<>>,
              exited |-> FALSE, waitClosed |-> FALSE, pc |-> "select"]

\* A second passes.
Tick ==
    /\ sig.now < MaxTime
    /\ sig' = [sig EXCEPT !.now = @ + 1]
    /\ UNCHANGED <<tvars, uvars, svars, pvars, ovars, wvars, lvars, inv, rotator, cmd>>

\* The process receives s: signal.Notify sends it to sigch without blocking.
Receive(s) ==
    /\ sig.received < MaxSignals
    /\ sig' = [sig EXCEPT !.received = @ + 1,
                          !.ch = IF @ = <<>> THEN <<s>> ELSE @]
    /\ UNCHANGED <<tvars, uvars, svars, pvars, ovars, wvars, lvars, inv, rotator, cmd>>

\* The timer expires: kill.C holds a value.
Expire ==
    /\ sig.now >= sig.deadline
    /\ sig' = [sig EXCEPT !.deadline = NoDeadline, !.fired = TRUE,
                          !.firedAlive = ~sig.exited]
    /\ UNCHANGED <<tvars, uvars, svars, pvars, ovars, wvars, lvars, inv, rotator, cmd>>

\* case <-kill.C
HandleKill ==
    /\ sig.pc = "select"
    /\ sig.fired
    /\ sig' = [notify(forward(sig, "SIGKILL"), "SIGKILL") EXCEPT !.fired = FALSE]
    /\ UNCHANGED <<tvars, uvars, svars, pvars, ovars, wvars, lvars, inv, rotator, cmd>>

\* case sig := <-sigch
HandleSignal ==
    /\ sig.pc = "select"
    /\ sig.ch # <<>>
    /\ LET s == sig.ch[1]
           h == CASE ignoring(sig.killing) -> sig
                  [] ~ignoring(sig.killing) /\ s = "SIGINT" /\ sig.lastSig = "SIGINT"
                         /\ sig.now - sig.lastSigAt <= interruptWindow ->
                       notify(forward(sig, "SIGTERM"), "SIGTERM")
                  [] OTHER -> notify(forward(sig, s), s)
       IN  sig' = [h EXCEPT !.ch = <<>>, !.lastSig = s, !.lastSigAt = sig.now]
    /\ UNCHANGED <<tvars, uvars, svars, pvars, ovars, wvars, lvars, inv, rotator, cmd>>

\* case <-wait: return
HandlerReturn ==
    /\ sig.pc = "select"
    /\ sig.waitClosed
    /\ sig' = [sig EXCEPT !.pc = "returned"]
    /\ UNCHANGED <<tvars, uvars, svars, pvars, ovars, wvars, lvars, inv, rotator, cmd>>

\* The child exits.
ChildExit ==
    /\ ~sig.exited
    /\ sig' = [sig EXCEPT !.exited = TRUE]
    /\ UNCHANGED <<tvars, uvars, svars, pvars, ovars, wvars, lvars, inv, rotator, cmd>>

\* err = cmd.Wait(); close(wait)
CloseWait ==
    /\ sig.exited
    /\ ~sig.waitClosed
    /\ sig' = [sig EXCEPT !.waitClosed = TRUE]
    /\ UNCHANGED <<tvars, uvars, svars, pvars, ovars, wvars, lvars, inv, rotator, cmd>>

NextSignals ==
    \/ Tick
    \/ \E s \in Signals : Receive(s)
    \/ Expire
    \/ HandleKill
    \/ HandleSignal
    \/ HandlerReturn
    \/ ChildExit
    \/ CloseWait

SpecSignals == InitSignals /\ [][NextSignals]_vars

\* select takes a case that stays ready; the timer expires when it is due;
\* doRun goes on once the child has exited; a killed child exits.
SpecSignalsFair ==
    /\ SpecSignals
    /\ WF_vars(HandleKill)
    /\ WF_vars(HandleSignal)
    /\ WF_vars(HandlerReturn)
    /\ WF_vars(Expire)
    /\ WF_vars(CloseWait)
    /\ WF_vars(ChildExit /\ \E i \in 1..Len(sig.sent) : sig.sent[i] = "SIGKILL")

Kills == Cardinality({i \in 1..Len(sig.sent) : sig.sent[i] = "SIGKILL"})

\* After a SIGTERM or SIGQUIT nothing but one SIGKILL is sent, and a SIGTERM
\* is sent for a SIGINT only within the window of the SIGINT before it.
NothingAfterTermination ==
    /\ \A i, j \in 1..Len(sig.sent) :
           (i < j /\ sig.sent[i] \in {"SIGTERM", "SIGQUIT"}) => sig.sent[j] = "SIGKILL"
    /\ \A j \in 1..Len(sig.sent) :
           sig.sent[j] = "SIGKILL" =>
               \E i \in 1..(j - 1) : sig.sent[i] \in {"SIGTERM", "SIGQUIT"}
    /\ Kills <= 1

\* C30 as the claim states it: with the child not exited when the kill
\* delay elapses, SIGKILL is sent.
C30_KillWheneverDelayElapses ==
    /\ []NothingAfterTermination
    /\ (sig.firedAlive ~> Kills = 1)
    /\ (sig.exited ~> sig.pc = "returned")

\* C30: once SIGTERM or SIGQUIT is sent, a SIGTERM for the second SIGINT of
\* a window included, no signal received later is sent on and SIGKILL is
\* sent at most once; when the kill delay elapses with the child not exited,
\* SIGKILL is sent unless the handler saw the child's exit first and
\* returned; the handler returns once the child has exited.
C30_SignalsEscalateOnce ==
    /\ []NothingAfterTermination
    /\ (sig.firedAlive ~> (Kills = 1 \/ sig.pc = "returned"))
    /\ (sig.exited ~> sig.pc = "returned")

\* Two SIGINTs within the window and a SIGQUIT after them: SIGINT and
\* SIGTERM are sent, the SIGQUIT is not, SIGKILL follows after the delay and
\* the handler returns when the child is gone.
C30_Witness ==
    /\ sig.sent = <<"SIGINT", "SIGTERM", "SIGKILL">>
    /\ sig.received = 3
    /\ sig.lastSig = "SIGQUIT"
    /\ sig.firedAlive
    /\ sig.pc = "returned"

====
